---------------------------- MODULE Spec2Model ----------------------------
(***************************************************************************)
(* Traffic simulation engine of the road builder game                      *)
(* (src/src/components/RoadGame.tsx, src/src/utils.ts).                    *)
(*                                                                         *)
(* Coordinates are whole pixels.  Every comparison of a distance with a    *)
(* threshold is done on squared integers and is exact; the one place where *)
(* the source produces fractional coordinates (the per-tick move and the   *)
(* lane offset, both of the form n / sqrt(d2)) is rounded to the nearest   *)
(* pixel by RoundDivSqrt.  Time is in milliseconds.  waitTime is counted   *)
(* in units of 0.016 s.                                                    *)
(***************************************************************************)
EXTENDS Integers, Sequences, FiniteSets, TLC

VARIABLES
    roads,          \* Road[]          (RoadGame.tsx:41)
    vehicles,       \* Vehicle[]       (RoadGame.tsx:42)
    intersections,  \* Intersection[]  (RoadGame.tsx:43)
    score,          \* number          (RoadGame.tsx:44)
    riverSegments,  \* RiverSegment[]  (RoadGame.tsx:57)
    buildings,      \* Building[]      (RoadGame.tsx:58)
    now,            \* the value Date.now() returned to the last tick
    nextId,         \* number of vehicles created so far (fresh vehicle ids)
    query,          \* the last findPath call made through the external interface
    lastTick,       \* the last run of the game loop: what it read and what it returned
    build,          \* the last call of findIntersections on the road list as it stood
    session         \* the new games started so far and the first vehicle id of this one

vars == <<roads, vehicles, intersections, score, riverSegments, buildings, now, nextId, query,
          lastTick, build,
                   session>>

-----------------------------------------------------------------------------
(* Bounds of the model *)

MaxTicks == 30
MaxSpawns == 2
MaxRoads == 3
MaxResets == 1

-----------------------------------------------------------------------------
(* Program constants.  The ones imported from '../constants' are set in a   *)
(* file that is not part of the sources at hand; the literals are quoted    *)
(* from the code.                                                           *)

VEHICLE_SPEED == 12
LANE_OFFSET == 4
MAX_VEHICLES == 1
OFFICE_WAIT_TIME == 32
SCORE_PER_TRIP == 1
GRID_SIZE == 20
TICK_MS == 16
MAX_BUILDING_TO_ROAD_DISTANCE == 50
ZONE_RADIUS == 30
INNER_RADIUS == 15
BAND_RADIUS == 35
DEDUP_DISTANCE == 5
ON_ROAD_DISTANCE == 2
ROAD_OVERLAP_THRESHOLD == 10
ROAD_OVERLAP_RATIO_PERCENT == 30

-----------------------------------------------------------------------------
(* Points, keys, arithmetic *)

Pt(px, py) == [x |-> px, y |-> py]

\* `${p.x},${p.y}`: the string key of a point, here the pair of its coordinates
KeyOf(p) == <<p.x, p.y>>

\* key.split(',').map(Number)
PointOfKey(k) == [x |-> k[1], y |-> k[2]]

Abs(n) == IF n < 0 THEN -n ELSE n

Max2(a, b) == IF a >= b THEN a ELSE b

Sq(n) == n * n

\* distance(p1, p2) squared
Dist2(p1, p2) == Sq(p2.x - p1.x) + Sq(p2.y - p1.y)

\* distance(p1, p2) < r, for an integer r >= 0
DistLess(p1, p2, r) == Dist2(p1, p2) < Sq(r)

\* floor(n / d) for d > 0
FloorDiv(n, d) == n \div d

\* Math.round(n / d) for d # 0: the nearest integer, halves towards +infinity
MathRound(n, d) ==
    IF d > 0 THEN FloorDiv(2 * n + d, 2 * d)
             ELSE FloorDiv(2 * (-n) + (-d), 2 * (-d))

\* n / sqrt(d2) rounded to the nearest integer, for d2 > 0 and |n / sqrt(d2)| <= m
RoundDivSqrt(n, d2, m) ==
    LET a == Abs(n)
        k == CHOOSE j \in 0..m :
                /\ (j = 0 \/ Sq(2 * j - 1) * d2 <= 4 * Sq(a))
                /\ (j = m \/ Sq(2 * j + 1) * d2 > 4 * Sq(a))
    IN  IF n < 0 THEN -k ELSE k

-----------------------------------------------------------------------------
(* Roads *)

NoPoint == <<>>

StraightRoad(i, s, e) == [id |-> i, start |-> s, end |-> e, controlPoint |-> NoPoint]

CurvedRoad(i, s, e, c) == [id |-> i, start |-> s, end |-> e, controlPoint |-> c]

\* !road.controlPoint
IsStraight(road) == road.controlPoint = NoPoint

-----------------------------------------------------------------------------
(* Geometry kernel *)

NoIntersection == [found |-> FALSE, point |-> Pt(0, 0)]

\* faulty variant of getLineIntersection: the meeting point of the two lines is
\* returned wherever it lies on them
getLineIntersectionOfLines(p1, p2, p3, p4) ==
    LET d1x == p2.x - p1.x
        d1y == p2.y - p1.y
        d2x == p4.x - p3.x
        d2y == p4.y - p3.y
        cross == d1x * d2y - d1y * d2x
        tn == (p3.x - p1.x) * d2y - (p3.y - p1.y) * d2x
    IN  IF cross = 0
        THEN NoIntersection
        ELSE [found |-> TRUE,
              point |-> Pt(MathRound(p1.x * cross + tn * d1x, cross),
                           MathRound(p1.y * cross + tn * d1y, cross))]

\* getLineIntersection(p1, p2, p3, p4)
getLineIntersection(p1, p2, p3, p4) ==
    LET d1x == p2.x - p1.x
        d1y == p2.y - p1.y
        d2x == p4.x - p3.x
        d2y == p4.y - p3.y
        cross == d1x * d2y - d1y * d2x
        tn == (p3.x - p1.x) * d2y - (p3.y - p1.y) * d2x   \* t = tn / cross
        un == (p3.x - p1.x) * d1y - (p3.y - p1.y) * d1x   \* u = un / cross
        sg == IF cross > 0 THEN 1 ELSE -1
        c == sg * cross
        InRange(n) == 100 * sg * n >= c /\ 100 * sg * n <= 99 * c
    IN  IF cross = 0  \* Math.abs(cross) < 0.0001, cross an integer
        THEN NoIntersection
        ELSE IF InRange(tn) /\ InRange(un)
             THEN [found |-> TRUE,
                   point |-> Pt(MathRound(p1.x * cross + tn * d1x, cross),
                                MathRound(p1.y * cross + tn * d1y, cross))]
             ELSE NoIntersection


-----------------------------------------------------------------------------
(* Sequence helpers *)

\* s.some(x => x = e)
InSeq(e, s) == \E i \in 1..Len(s) : s[i] = e

\* the elements of s in order of first occurrence (insertion order of a Set or Map)
RECURSIVE DistinctFrom(_, _)
DistinctFrom(s, acc) ==
    IF s = <<>> THEN acc
    ELSE DistinctFrom(Tail(s), IF InSeq(Head(s), acc) THEN acc ELSE Append(acc, Head(s)))

Distinct(s) == DistinctFrom(s, <<>>)

\* the pairs <<i, j>>, i < j <= n, in the order of the two nested loops
RECURSIVE PairsFrom(_, _, _)
PairsFrom(i, j, n) ==
    IF i > n THEN <<>>
    ELSE IF j > n THEN PairsFrom(i + 1, i + 2, n)
    ELSE <<(<<i, j>>)>> \o PairsFrom(i, j + 1, n)

Pairs(n) == PairsFrom(1, 2, n)

\* the keys of the start and end of every road, in road order
RECURSIVE EndpointKeys(_)
EndpointKeys(roadList) ==
    IF roadList = <<>> THEN <<>>
    ELSE <<KeyOf(Head(roadList).start), KeyOf(Head(roadList).end)>>
            \o EndpointKeys(Tail(roadList))

\* faulty variant of CrossingsOf: the chord of a curved road is crossed like a
\* straight road
RECURSIVE CrossingsOfAnyRoads(_, _)
CrossingsOfAnyRoads(roadList, pairs) ==
    IF pairs = <<>> THEN <<>>
    ELSE LET road1 == roadList[Head(pairs)[1]]
             road2 == roadList[Head(pairs)[2]]
             hit == getLineIntersection(road1.start, road1.end, road2.start, road2.end)
         IN  (IF hit.found THEN <<hit.point>> ELSE <<>>)
                \o CrossingsOfAnyRoads(roadList, Tail(pairs))

\* the getLineIntersection results of all pairs of straight roads, in loop order
RECURSIVE CrossingsOf(_, _)
CrossingsOf(roadList, pairs) ==
    IF pairs = <<>> THEN <<>>
    ELSE LET road1 == roadList[Head(pairs)[1]]
             road2 == roadList[Head(pairs)[2]]
             hit == IF IsStraight(road1) /\ IsStraight(road2)
                    THEN getLineIntersection(road1.start, road1.end, road2.start, road2.end)
                    ELSE NoIntersection
         IN  (IF hit.found THEN <<hit.point>> ELSE <<>>) \o CrossingsOf(roadList, Tail(pairs))

-----------------------------------------------------------------------------
(* Road network builder *)

Intersection(p) == [point |-> p, vehicleCount |-> 0]

\* points.get(key): how many road ends have this key
EndpointCount(roadList, key) ==
    LET ks == EndpointKeys(roadList)
    IN  Cardinality({i \in 1..Len(ks) : ks[i] = key})

\* faulty variant of Junctions: a road end counts when three or more roads share it
JunctionsOfThree(roadList) ==
    LET ks == Distinct(EndpointKeys(roadList))
        shared == SelectSeq(ks, LAMBDA k : EndpointCount(roadList, k) >= 3)
    IN  [i \in 1..Len(shared) |-> Intersection(PointOfKey(shared[i]))]

\* step 1 of findIntersections: the road ends shared by two or more roads
Junctions(roadList) ==
    LET ks == Distinct(EndpointKeys(roadList))
        shared == SelectSeq(ks, LAMBDA k : EndpointCount(roadList, k) >= 2)
    IN  [i \in 1..Len(shared) |-> Intersection(PointOfKey(shared[i]))]

\* result.some(r => |r.point.x - p.x| < 5 && |r.point.y - p.y| < 5)
AlreadyRecorded(result, p) ==
    \E i \in 1..Len(result) :
        /\ Abs(result[i].point.x - p.x) < DEDUP_DISTANCE
        /\ Abs(result[i].point.y - p.y) < DEDUP_DISTANCE

\* step 2 of findIntersections: the crossings not yet recorded are appended
RECURSIVE AddCrossings(_, _)
AddCrossings(result, crossings) ==
    IF crossings = <<>> THEN result
    ELSE AddCrossings(IF AlreadyRecorded(result, Head(crossings))
                      THEN result
                      ELSE Append(result, Intersection(Head(crossings))),
                      Tail(crossings))

\* faulty variant of findIntersections: the result list of the call before is
\* not cleared, and what it still holds is not returned again
findIntersectionsStale(roadList) ==
    LET result == AddCrossings(intersections \o Junctions(roadList),
                               CrossingsOf(roadList, Pairs(Len(roadList))))
    IN  SubSeq(result, Len(intersections) + 1, Len(result))

\* findIntersections(roadList)
findIntersections(roadList) ==
    AddCrossings(Junctions(roadList), CrossingsOf(roadList, Pairs(Len(roadList))))

-----------------------------------------------------------------------------
(* Path finder *)

NoPath == [found |-> FALSE, path |-> <<>>]

\* faulty variant of Usable: the length of the path is not looked at
UsableAnyPath(res) == res.found

\* faulty variant of Usable: a path of a single node is taken for a way
UsableFromOneNode(res) == res.found /\ Len(res.path) >= 1

\* path && path.length >= 2
Usable(res) == res.found /\ Len(res.path) >= 2

\* allNodes: the keys of the road ends, then of the crossings, in insertion order
AllNodes(roadList) ==
    LET realIntersections == CrossingsOf(roadList, Pairs(Len(roadList)))
    IN  Distinct(EndpointKeys(roadList)
                 \o [i \in 1..Len(realIntersections) |-> KeyOf(realIntersections[i])])

\* the test of findPath that a crossing lies on a straight road: its projection
\* parameter t = dot / len^2 is in (0.01, 0.99) and it is nearer than 2 px to the
\* line.  The distance of p to its projection is |perp| / len, so that
\* distToLine < 2 is perp^2 < 4 * len^2; as len <= |dx| + |dy|, the first of the
\* two conjuncts on perp is implied by the second and only keeps the square small.
OnRoad(road, p) ==
    LET dx == road.end.x - road.start.x
        dy == road.end.y - road.start.y
        len2 == dx * dx + dy * dy
        dot == (p.x - road.start.x) * dx + (p.y - road.start.y) * dy
        perp == (p.x - road.start.x) * dy - (p.y - road.start.y) * dx
    IN  /\ len2 # 0
        /\ 100 * dot > len2
        /\ 100 * dot < 99 * len2
        /\ Abs(perp) <= ON_ROAD_DISTANCE * (Abs(dx) + Abs(dy))
        /\ Sq(perp) < Sq(ON_ROAD_DISTANCE) * len2

\* the numerator of t for a crossing on the road
RoadT(road, p) ==
    (p.x - road.start.x) * (road.end.x - road.start.x)
        + (p.y - road.start.y) * (road.end.y - road.start.y)

\* insertion of e into the sequence s sorted by t, after the entries with the same t
\* (Array.prototype.sort is stable)
RECURSIVE InsertByT(_, _, _)
InsertByT(s, e, road) ==
    IF s = <<>> THEN <<e>>
    ELSE IF RoadT(road, e) < RoadT(road, Head(s)) THEN <<e>> \o s
    ELSE <<Head(s)>> \o InsertByT(Tail(s), e, road)

RECURSIVE SortByT(_, _, _)
SortByT(todo, done, road) ==
    IF todo = <<>> THEN done
    ELSE SortByT(Tail(todo), InsertByT(done, Head(todo), road), road)

\* nodesOnRoad after the sort: start (t = 0), the crossings on the road, end (t = 1)
NodesOnRoad(road, realIntersections) ==
    LET onIt == IF IsStraight(road)
                THEN SelectSeq(realIntersections, LAMBDA p : OnRoad(road, p))
                ELSE <<>>
    IN  <<road.start>> \o SortByT(onIt, <<>>, road) \o <<road.end>>

\* the pairs (from, to) of consecutive nodes of every road, in the order they are linked
RECURSIVE EdgesOf(_, _)
EdgesOf(roadList, realIntersections) ==
    IF roadList = <<>> THEN <<>>
    ELSE LET ns == NodesOnRoad(Head(roadList), realIntersections)
         IN  [i \in 1..(Len(ns) - 1) |-> <<ns[i], ns[i + 1]>>]
                \o EdgesOf(Tail(roadList), realIntersections)

\* nodeConnections.get(key): the neighbours of a node in the order they were pushed
RECURSIVE Neighbors(_, _)
Neighbors(edges, key) ==
    IF edges = <<>> THEN <<>>
    ELSE LET from == Head(edges)[1]
             to == Head(edges)[2]
         IN  (IF KeyOf(from) = key THEN <<to>> ELSE <<>>)
                \o (IF KeyOf(to) = key THEN <<from>> ELSE <<>>)
                \o Neighbors(Tail(edges), key)

\* the node nearest to p, the first one found winning a tie (strict <)
RECURSIVE ClosestFrom(_, _, _)
ClosestFrom(nodes, p, best) ==
    IF nodes = <<>> THEN best
    ELSE LET q == PointOfKey(Head(nodes))
         IN  ClosestFrom(Tail(nodes), p,
                         IF Dist2(q, p) < Dist2(best, p) THEN q ELSE best)

ClosestNode(nodes, p) == ClosestFrom(Tail(nodes), p, PointOfKey(Head(nodes)))

\* closestDist > MAX_BUILDING_TO_ROAD_DISTANCE
TooFar(node, p) == Dist2(node, p) > Sq(MAX_BUILDING_TO_ROAD_DISTANCE)

\* faulty variant of VisitNeighbors: the loop is left after the first unvisited
\* neighbour
RECURSIVE VisitFirstNeighbor(_, _, _, _)
VisitFirstNeighbor(ns, path, queue, visited) ==
    IF ns = <<>> THEN [queue |-> queue, visited |-> visited]
    ELSE IF KeyOf(Head(ns)) \in visited
         THEN VisitFirstNeighbor(Tail(ns), path, queue, visited)
         ELSE [queue |-> Append(queue, [point |-> Head(ns), path |-> Append(path, Head(ns))]),
               visited |-> visited \cup {KeyOf(Head(ns))}]

\* the for loop over the neighbours of a dequeued node: the unvisited ones are
\* marked and enqueued with the path extended
RECURSIVE VisitNeighbors(_, _, _, _)
VisitNeighbors(ns, path, queue, visited) ==
    IF ns = <<>> THEN [queue |-> queue, visited |-> visited]
    ELSE IF KeyOf(Head(ns)) \in visited
         THEN VisitNeighbors(Tail(ns), path, queue, visited)
         ELSE VisitNeighbors(Tail(ns), path,
                             Append(queue, [point |-> Head(ns), path |-> Append(path, Head(ns))]),
                             visited \cup {KeyOf(Head(ns))})

\* faulty variant of BfsLoop: when the queue runs empty the end node is returned
\* as a path of its own
RECURSIVE BfsLoopNeverFails(_, _, _, _)
BfsLoopNeverFails(queue, visited, endNode, edges) ==
    IF queue = <<>> THEN [found |-> TRUE, path |-> <<endNode>>]
    ELSE LET cur == Head(queue)
         IN  IF cur.point.x = endNode.x /\ cur.point.y = endNode.y
             THEN [found |-> TRUE, path |-> cur.path]
             ELSE LET nxt == VisitNeighbors(Neighbors(edges, KeyOf(cur.point)),
                                            cur.path, Tail(queue), visited)
                  IN  BfsLoopNeverFails(nxt.queue, nxt.visited, endNode, edges)

\* the while loop of the breadth-first search
RECURSIVE BfsLoop(_, _, _, _)
BfsLoop(queue, visited, endNode, edges) ==
    IF queue = <<>> THEN NoPath
    ELSE LET cur == Head(queue)
         IN  IF cur.point.x = endNode.x /\ cur.point.y = endNode.y
             THEN [found |-> TRUE, path |-> cur.path]
             ELSE LET nxt == VisitNeighbors(Neighbors(edges, KeyOf(cur.point)),
                                            cur.path, Tail(queue), visited)
                  IN  BfsLoop(nxt.queue, nxt.visited, endNode, edges)

\* faulty variant of findPath: only the end may not be too far from its nearest
\* node
findPathStartAnywhere(start, end, roadList) ==
    IF Len(roadList) = 0 THEN NoPath
    ELSE LET nodes == AllNodes(roadList)
             realIntersections == CrossingsOf(roadList, Pairs(Len(roadList)))
             closestStart == ClosestNode(nodes, start)
             closestEnd == ClosestNode(nodes, end)
         IN  IF TooFar(closestEnd, end)
             THEN NoPath
             ELSE BfsLoop(<<[point |-> closestStart, path |-> <<closestStart>>]>>,
                          {KeyOf(closestStart)}, closestEnd,
                          EdgesOf(roadList, realIntersections))

\* faulty variant of findPath: the path starts at the start point itself and ends
\* at the end point itself
findPathWithBuildings(start, end, roadList) ==
    IF Len(roadList) = 0 THEN NoPath
    ELSE LET nodes == AllNodes(roadList)
             realIntersections == CrossingsOf(roadList, Pairs(Len(roadList)))
             closestStart == ClosestNode(nodes, start)
             closestEnd == ClosestNode(nodes, end)
             res == BfsLoop(<<[point |-> closestStart, path |-> <<closestStart>>]>>,
                            {KeyOf(closestStart)}, closestEnd,
                            EdgesOf(roadList, realIntersections))
         IN  IF TooFar(closestStart, start) \/ TooFar(closestEnd, end)
             THEN NoPath
             ELSE IF res.found
                  THEN [found |-> TRUE, path |-> <<start>> \o res.path \o <<end>>]
                  ELSE NoPath

\* faulty variant of findPath: no path is returned only when both the start and
\* the end are too far from their nearest nodes
findPathBothTooFar(start, end, roadList) ==
    IF Len(roadList) = 0 THEN NoPath
    ELSE LET nodes == AllNodes(roadList)
             realIntersections == CrossingsOf(roadList, Pairs(Len(roadList)))
             closestStart == ClosestNode(nodes, start)
             closestEnd == ClosestNode(nodes, end)
         IN  IF TooFar(closestStart, start) /\ TooFar(closestEnd, end)
             THEN NoPath
             ELSE BfsLoop(<<[point |-> closestStart, path |-> <<closestStart>>]>>,
                          {KeyOf(closestStart)}, closestEnd,
                          EdgesOf(roadList, realIntersections))

\* faulty variant of findPath: on an empty road list the straight way from start
\* to end is returned
findPathAcrossFields(start, end, roadList) ==
    IF Len(roadList) = 0 THEN [found |-> TRUE, path |-> <<start, end>>]
    ELSE LET nodes == AllNodes(roadList)
             realIntersections == CrossingsOf(roadList, Pairs(Len(roadList)))
             closestStart == ClosestNode(nodes, start)
             closestEnd == ClosestNode(nodes, end)
         IN  IF TooFar(closestStart, start) \/ TooFar(closestEnd, end)
             THEN NoPath
             ELSE BfsLoop(<<[point |-> closestStart, path |-> <<closestStart>>]>>,
                          {KeyOf(closestStart)}, closestEnd,
                          EdgesOf(roadList, realIntersections))

\* faulty variant of findPath: it remembers that it has been called and answers
\* only the first call
findPathOnlyOnce(start, end, roadList) ==
    IF query.asked \/ Len(roadList) = 0 THEN NoPath
    ELSE LET nodes == AllNodes(roadList)
             realIntersections == CrossingsOf(roadList, Pairs(Len(roadList)))
             closestStart == ClosestNode(nodes, start)
             closestEnd == ClosestNode(nodes, end)
         IN  IF TooFar(closestStart, start) \/ TooFar(closestEnd, end)
             THEN NoPath
             ELSE BfsLoop(<<[point |-> closestStart, path |-> <<closestStart>>]>>,
                          {KeyOf(closestStart)}, closestEnd,
                          EdgesOf(roadList, realIntersections))

\* findPath(start, end, roadList)
findPath(start, end, roadList) ==
    IF Len(roadList) = 0 THEN NoPath
    ELSE LET nodes == AllNodes(roadList)
             realIntersections == CrossingsOf(roadList, Pairs(Len(roadList)))
             closestStart == ClosestNode(nodes, start)
             closestEnd == ClosestNode(nodes, end)
         IN  IF TooFar(closestStart, start) \/ TooFar(closestEnd, end)
             THEN NoPath
             ELSE BfsLoop(<<[point |-> closestStart, path |-> <<closestStart>>]>>,
                          {KeyOf(closestStart)}, closestEnd,
                          EdgesOf(roadList, realIntersections))

-----------------------------------------------------------------------------
(* Buildings.  An id `color<i>-home` / `color<i>-office` is the pair of its  *)
(* colour prefix and its role.                                               *)

Building(c, r, p) == [id |-> [color |-> c, role |-> r], position |-> p]

\* id.includes('-home')
IsHome(b) == b.id.role = "home"

\* buildings.find(b => b.id === id): the index of the first match, 0 for none
FindBuilding(blds, id) ==
    IF \E i \in 1..Len(blds) : blds[i].id = id
    THEN CHOOSE i \in 1..Len(blds) :
            /\ blds[i].id = id
            /\ \A j \in 1..(i - 1) : blds[j].id # id
    ELSE 0

\* findOfficeForHome(homeBuilding): the index of `${colorPrefix}-office`, 0 for null
findOfficeForHome(blds, homeBuilding) ==
    FindBuilding(blds, [color |-> homeBuilding.id.color, role |-> "office"])

-----------------------------------------------------------------------------
(* Vehicles *)

EnRoute(v) == v.status = "going-to-office" \/ v.status = "going-home"

EmptyTimes == [k \in {} |-> 0]

\* faulty variant of NewVehicle: the vehicle is sent from the office to the home
NewVehicleSwapped(vid, fromBuilding, toBuilding, path) ==
    [id |-> vid,
     position |-> path[1],
     targetIndex |-> 1,
     path |-> path,
     speed |-> VEHICLE_SPEED,
     waitTime |-> 0,
     lane |-> "right",
     direction |-> <<0, 1>>,     \* 0 = atan2(0, 1); later the arguments <<dy, dx>>
     fromBuilding |-> toBuilding.id,
     toBuilding |-> fromBuilding.id,
     status |-> "going-to-office",
     officeArrivalTime |-> 0,
     intersectionArrivalTimes |-> EmptyTimes]

\* the vehicle created by spawnVehicleFromBuilding
NewVehicle(vid, fromBuilding, toBuilding, path) ==
    [id |-> vid,
     position |-> path[1],
     targetIndex |-> 1,
     path |-> path,
     speed |-> VEHICLE_SPEED,
     waitTime |-> 0,
     lane |-> "right",
     direction |-> <<0, 1>>,     \* 0 = atan2(0, 1); later the arguments <<dy, dx>>
     fromBuilding |-> fromBuilding.id,
     toBuilding |-> toBuilding.id,
     status |-> "going-to-office",
     officeArrivalTime |-> 0,
     intersectionArrivalTimes |-> EmptyTimes]

\* createReturnPath(vehicle)
createReturnPath(v, blds, roadList) ==
    LET o == FindBuilding(blds, v.toBuilding)
        h == FindBuilding(blds, v.fromBuilding)
    IN  IF o = 0 \/ h = 0 THEN NoPath
        ELSE findPath(blds[o].position, blds[h].position, roadList)

\* getLaneOffset(from, to, lane)
getLaneOffset(from, to, lane) ==
    LET dx == to.x - from.x
        dy == to.y - from.y
        len2 == dx * dx + dy * dy
        offset == IF lane = "right" THEN LANE_OFFSET ELSE -LANE_OFFSET
    IN  IF len2 = 0 THEN Pt(0, 0)
        ELSE Pt(RoundDivSqrt((-dy) * offset, len2, LANE_OFFSET),
                RoundDivSqrt(dx * offset, len2, LANE_OFFSET))

-----------------------------------------------------------------------------
(* Simulation step, stage 1: arrival bookkeeping *)

IntersectionKeys(ints) == {KeyOf(ints[i].point) : i \in 1..Len(ints)}

\* !newArrivalTimes[key]
NoTime(times, key) == key \notin DOMAIN times \/ times[key] = 0

\* faulty variant of UpdateArrivalTimes: the time is recorded anew in every run
\* in which the vehicle is found inside the zone
UpdateArrivalTimesAnew(v, ints, currentTime) ==
    LET old == v.intersectionArrivalTimes
        keys == IntersectionKeys(ints)
        near == {k \in keys : DistLess(v.position, PointOfKey(k), ZONE_RADIUS)}
    IN  [k \in (DOMAIN old \ keys) \cup near |->
            IF k \in near THEN currentTime ELSE old[k]]

\* faulty variant of UpdateArrivalTimes: the time of a vehicle that has left the
\* zone is kept
UpdateArrivalTimesKept(v, ints, currentTime) ==
    LET old == v.intersectionArrivalTimes
        keys == IntersectionKeys(ints)
        near == {k \in keys : DistLess(v.position, PointOfKey(k), ZONE_RADIUS)}
    IN  [k \in DOMAIN old \cup near |->
            IF k \in near /\ NoTime(old, k) THEN currentTime ELSE old[k]]

\* the intersectionArrivalTimes of a vehicle after the forEach over the intersections
UpdateArrivalTimes(v, ints, currentTime) ==
    LET old == v.intersectionArrivalTimes
        keys == IntersectionKeys(ints)
        near == {k \in keys : DistLess(v.position, PointOfKey(k), ZONE_RADIUS)}
    IN  [k \in (DOMAIN old \ keys) \cup near |->
            IF k \in near /\ NoTime(old, k) THEN currentTime ELSE old[k]]

\* faulty variant of WithArrivalTimes: the times of every vehicle are brought up
\* to date, whatever its status
WithArrivalTimesAnyStatus(vs, ints, currentTime) ==
    [i \in 1..Len(vs) |->
        [vs[i] EXCEPT !.intersectionArrivalTimes = UpdateArrivalTimes(vs[i], ints, currentTime)]]

\* vehiclesWithArrivalTimes
WithArrivalTimes(vs, ints, currentTime) ==
    [i \in 1..Len(vs) |->
        IF EnRoute(vs[i])
        THEN [vs[i] EXCEPT !.intersectionArrivalTimes = UpdateArrivalTimes(vs[i], ints, currentTime)]
        ELSE vs[i]]

-----------------------------------------------------------------------------
(* Simulation step, stage 2: FIFO queues *)

\* the entries pushed for one intersection key, in vehicle order
RECURSIVE QueueEntries(_, _)
QueueEntries(vs, key) ==
    IF vs = <<>> THEN <<>>
    ELSE (IF EnRoute(Head(vs)) /\ key \in DOMAIN Head(vs).intersectionArrivalTimes
          THEN <<[id |-> Head(vs).id,
                  arrivalTime |-> Head(vs).intersectionArrivalTimes[key]]>>
          ELSE <<>>)
         \o QueueEntries(Tail(vs), key)

\* insertion after the entries that are not later (the sort is stable)
RECURSIVE InsertByArrival(_, _)
InsertByArrival(s, e) ==
    IF s = <<>> THEN <<e>>
    ELSE IF e.arrivalTime < Head(s).arrivalTime THEN <<e>> \o s
    ELSE <<Head(s)>> \o InsertByArrival(Tail(s), e)

RECURSIVE SortByArrival(_, _)
SortByArrival(todo, done) ==
    IF todo = <<>> THEN done
    ELSE SortByArrival(Tail(todo), InsertByArrival(done, Head(todo)))

\* intersectionQueues.get(key) after the sort; <<>> stands for undefined
QueueOf(vs, key) == SortByArrival(QueueEntries(vs, key), <<>>)

-----------------------------------------------------------------------------
(* Simulation step, stage 3: per-vehicle transition *)

\* intersections.some(i => distance(vehicle.position, i.point) < 15)
InsideIntersection(v, ints) ==
    \E i \in 1..Len(ints) : DistLess(v.position, ints[i].point, INNER_RADIUS)

\* faulty variant of InApproachBand: the band ends where the zone ends
InApproachBandZone(v, p) ==
    /\ ~DistLess(v.position, p, INNER_RADIUS)
    /\ DistLess(v.position, p, ZONE_RADIUS)

\* distToIntersection >= 15 && distToIntersection < 35
InApproachBand(v, p) ==
    /\ ~DistLess(v.position, p, INNER_RADIUS)
    /\ DistLess(v.position, p, BAND_RADIUS)

\* faulty variant of SameDirectionInIntersection: the status is not compared
AnyDirectionInIntersection(v, vs, p) ==
    \E j \in 1..Len(vs) :
        /\ vs[j].id # v.id
        /\ DistLess(vs[j].position, p, INNER_RADIUS)

\* sameDirectionInIntersection
SameDirectionInIntersection(v, vs, p) ==
    \E j \in 1..Len(vs) :
        /\ vs[j].id # v.id
        /\ vs[j].status = v.status
        /\ DistLess(vs[j].position, p, INNER_RADIUS)

\* sameDirectionQueue: the entries of the queue whose vehicle has the status of v
SameDirectionQueue(v, vs, queue) ==
    SelectSeq(queue, LAMBDA q :
        \E j \in 1..Len(vs) : vs[j].id = q.id /\ vs[j].status = v.status)

\* faulty variant of QueueSaysWait: more than two entries are asked for
QueueSaysWaitOverTwo(v, vs, key) ==
    LET queue == QueueOf(vs, key)
        sameDirectionQueue == SameDirectionQueue(v, vs, queue)
    IN  /\ Len(queue) > 2
        /\ Len(sameDirectionQueue) > 2
        /\ sameDirectionQueue[1].id # v.id

\* the else-if branch: the queue holds two or more same-direction entries and the
\* first of them is another vehicle
QueueSaysWait(v, vs, key) ==
    LET queue == QueueOf(vs, key)
        sameDirectionQueue == SameDirectionQueue(v, vs, queue)
    IN  /\ Len(queue) >= 2
        /\ Len(sameDirectionQueue) >= 2
        /\ sameDirectionQueue[1].id # v.id

\* faulty variant of ShouldWait: the loop over the intersections stops at the
\* first one in whose approach band the vehicle is
ShouldWaitAtFirstBand(v, vs, ints) ==
    /\ ~InsideIntersection(v, ints)
    /\ \E i \in 1..Len(ints) :
          /\ InApproachBand(v, ints[i].point)
          /\ \A j \in 1..(i - 1) : ~InApproachBand(v, ints[j].point)
          /\ \/ SameDirectionInIntersection(v, vs, ints[i].point)
             \/ QueueSaysWait(v, vs, KeyOf(ints[i].point))

\* faulty variant of ShouldWait: a vehicle inside an intersection is not exempted
ShouldWaitEvenInside(v, vs, ints) ==
    \E i \in 1..Len(ints) :
        /\ InApproachBand(v, ints[i].point)
        /\ \/ SameDirectionInIntersection(v, vs, ints[i].point)
           \/ QueueSaysWait(v, vs, KeyOf(ints[i].point))

\* shouldWait, as left by the forEach over the intersections
ShouldWait(v, vs, ints) ==
    /\ ~InsideIntersection(v, ints)
    /\ \E i \in 1..Len(ints) :
          /\ InApproachBand(v, ints[i].point)
          /\ \/ SameDirectionInIntersection(v, vs, ints[i].point)
             \/ QueueSaysWait(v, vs, KeyOf(ints[i].point))

\* adjustedTarget: path[targetIndex] shifted by the lane offset
AdjustedTarget(v) ==
    LET target == v.path[v.targetIndex + 1]
        prevPoint == v.path[Max2(0, v.targetIndex - 1) + 1]
        laneOffset == getLaneOffset(prevPoint, target, v.lane)
    IN  Pt(target.x + laneOffset.x, target.y + laneOffset.y)

\* faulty variant of Move: a vehicle put on its target keeps its targetIndex
MoveKeepsTargetIndex(v) ==
    LET adjustedTarget == AdjustedTarget(v)
        dx == adjustedTarget.x - v.position.x
        dy == adjustedTarget.y - v.position.y
        d2 == dx * dx + dy * dy
    IN  IF d2 < Sq(v.speed)
        THEN [v EXCEPT !.position = adjustedTarget,
                       !.direction = <<dy, dx>>,
                       !.waitTime = Max2(0, v.waitTime - 1)]
        ELSE [v EXCEPT !.position = Pt(v.position.x + RoundDivSqrt(dx * v.speed, d2, v.speed),
                                       v.position.y + RoundDivSqrt(dy * v.speed, d2, v.speed)),
                       !.direction = <<dy, dx>>,
                       !.waitTime = Max2(0, v.waitTime - 1)]

\* faulty variant of Move: waitTime is lowered without the Math.max
MoveDecayBelowZero(v) ==
    LET adjustedTarget == AdjustedTarget(v)
        dx == adjustedTarget.x - v.position.x
        dy == adjustedTarget.y - v.position.y
        d2 == dx * dx + dy * dy
    IN  IF d2 < Sq(v.speed)
        THEN [v EXCEPT !.position = adjustedTarget,
                       !.targetIndex = v.targetIndex + 1,
                       !.direction = <<dy, dx>>,
                       !.waitTime = v.waitTime - 1]
        ELSE [v EXCEPT !.position = Pt(v.position.x + RoundDivSqrt(dx * v.speed, d2, v.speed),
                                       v.position.y + RoundDivSqrt(dy * v.speed, d2, v.speed)),
                       !.direction = <<dy, dx>>,
                       !.waitTime = v.waitTime - 1]

\* faulty variant of Move: the vehicle is never put on its target, it always
\* drives on by its speed
MoveWithoutSnap(v) ==
    LET adjustedTarget == AdjustedTarget(v)
        dx == adjustedTarget.x - v.position.x
        dy == adjustedTarget.y - v.position.y
        d2 == dx * dx + dy * dy
    IN  IF d2 = 0
        THEN [v EXCEPT !.targetIndex = v.targetIndex + 1,
                       !.direction = <<dy, dx>>,
                       !.waitTime = Max2(0, v.waitTime - 1)]
        ELSE [v EXCEPT !.position = Pt(v.position.x + RoundDivSqrt(dx * v.speed, d2, v.speed),
                                       v.position.y + RoundDivSqrt(dy * v.speed, d2, v.speed)),
                       !.direction = <<dy, dx>>,
                       !.waitTime = Max2(0, v.waitTime - 1)]

\* the two return statements under "이동": snap to the target or advance by speed
Move(v) ==
    LET adjustedTarget == AdjustedTarget(v)
        dx == adjustedTarget.x - v.position.x
        dy == adjustedTarget.y - v.position.y
        d2 == dx * dx + dy * dy
    IN  IF d2 < Sq(v.speed)
        THEN [v EXCEPT !.position = adjustedTarget,
                       !.targetIndex = v.targetIndex + 1,
                       !.direction = <<dy, dx>>,
                       !.waitTime = Max2(0, v.waitTime - 1)]
        ELSE [v EXCEPT !.position = Pt(v.position.x + RoundDivSqrt(dx * v.speed, d2, v.speed),
                                       v.position.y + RoundDivSqrt(dy * v.speed, d2, v.speed)),
                       !.direction = <<dy, dx>>,
                       !.waitTime = Max2(0, v.waitTime - 1)]

Keep(v) == [removed |-> FALSE, vehicle |-> v, credit |-> 0]

Remove(v, c) == [removed |-> TRUE, vehicle |-> v, credit |-> c]

\* faulty variant of DwellElapsed: the dwell has to be exceeded
DwellElapsedStrict(v, currentTime) == currentTime - v.officeArrivalTime > OFFICE_WAIT_TIME

\* currentTime - vehicle.officeArrivalTime >= OFFICE_WAIT_TIME
DwellElapsed(v, currentTime) == currentTime - v.officeArrivalTime >= OFFICE_WAIT_TIME

\* faulty variant of AtOfficeStep: a vehicle without a return path is marked
\* at-home
AtOfficeStepGivesUp(v, currentTime, blds, roadList) ==
    IF DwellElapsed(v, currentTime)
    THEN LET returnPath == createReturnPath(v, blds, roadList)
         IN  IF Usable(returnPath)
             THEN [v EXCEPT !.status = "going-home",
                            !.path = returnPath.path,
                            !.targetIndex = 1,
                            !.position = returnPath.path[1],
                            !.intersectionArrivalTimes = EmptyTimes]
             ELSE [v EXCEPT !.status = "at-home"]
    ELSE v

\* the at-office branch
AtOfficeStep(v, currentTime, blds, roadList) ==
    IF DwellElapsed(v, currentTime)
    THEN LET returnPath == createReturnPath(v, blds, roadList)
         IN  IF Usable(returnPath)
             THEN [v EXCEPT !.status = "going-home",
                            !.path = returnPath.path,
                            !.targetIndex = 1,
                            !.position = returnPath.path[1],
                            !.intersectionArrivalTimes = EmptyTimes]
             ELSE v
    ELSE v

\* faulty variant of DestinationStep: the status is not looked at, every vehicle
\* at the end of its path turns at-office
DestinationStepAnyStatus(v, currentTime) ==
    Keep([v EXCEPT !.status = "at-office", !.officeArrivalTime = currentTime])

\* faulty variant of DestinationStep: the trip is credited on reaching the office
\* as well as on reaching home
DestinationStepCreditsOffice(v, currentTime) ==
    IF v.status = "going-to-office"
    THEN [removed |-> FALSE,
          vehicle |-> [v EXCEPT !.status = "at-office", !.officeArrivalTime = currentTime],
          credit |-> SCORE_PER_TRIP]
    ELSE IF v.status = "going-home"
    THEN Remove(v, SCORE_PER_TRIP)
    ELSE Keep(v)

\* the branch taken when targetIndex >= path.length
DestinationStep(v, currentTime) ==
    IF v.status = "going-to-office"
    THEN Keep([v EXCEPT !.status = "at-office", !.officeArrivalTime = currentTime])
    ELSE IF v.status = "going-home"
    THEN Remove(v, SCORE_PER_TRIP)
    ELSE Keep(v)

\* faulty variant of StepVehicle: a vehicle marked at-home is credited as it is removed
StepVehicleCreditsAtHome(v, vs, ints, currentTime, blds, roadList) ==
    IF v.status = "at-office" THEN Keep(AtOfficeStep(v, currentTime, blds, roadList))
    ELSE IF v.status = "at-home" THEN Remove(v, SCORE_PER_TRIP)
    ELSE IF v.targetIndex >= Len(v.path) THEN DestinationStep(v, currentTime)
    ELSE IF ShouldWait(v, vs, ints) THEN Keep([v EXCEPT !.waitTime = v.waitTime + 1])
    ELSE Keep(Move(v))

\* the body of updatedVehicles' map for one vehicle of vehiclesWithArrivalTimes
StepVehicle(v, vs, ints, currentTime, blds, roadList) ==
    IF v.status = "at-office" THEN Keep(AtOfficeStep(v, currentTime, blds, roadList))
    ELSE IF v.status = "at-home" THEN Remove(v, 0)
    ELSE IF v.targetIndex >= Len(v.path) THEN DestinationStep(v, currentTime)
    ELSE IF ShouldWait(v, vs, ints) THEN Keep([v EXCEPT !.waitTime = v.waitTime + 1])
    ELSE Keep(Move(v))

\* faulty variant of StepAll: the vehicles are updated one after the other in
\* the list that the later ones read
RECURSIVE StepInPlaceFrom(_, _, _, _, _, _)
StepInPlaceFrom(i, cur, ints, currentTime, blds, roadList) ==
    IF i > Len(cur) THEN <<>>
    ELSE LET r == StepVehicle(cur[i], cur, ints, currentTime, blds, roadList)
         IN  <<r>> \o StepInPlaceFrom(i + 1, [cur EXCEPT ![i] = r.vehicle], ints,
                                      currentTime, blds, roadList)

StepAllInPlace(vs, ints, currentTime, blds, roadList) ==
    StepInPlaceFrom(1, WithArrivalTimes(vs, ints, currentTime), ints, currentTime, blds,
                    roadList)

\* the results of the map, one per vehicle
StepAll(vs, ints, currentTime, blds, roadList) ==
    LET withTimes == WithArrivalTimes(vs, ints, currentTime)
    IN  [i \in 1..Len(vs) |-> StepVehicle(withTimes[i], withTimes, ints, currentTime, blds, roadList)]

\* .filter(v => v !== null)
RECURSIVE Survivors(_)
Survivors(results) ==
    IF results = <<>> THEN <<>>
    ELSE (IF Head(results).removed THEN <<>> ELSE <<Head(results).vehicle>>)
            \o Survivors(Tail(results))

\* scoreIncrease after the map
RECURSIVE ScoreIncrease(_)
ScoreIncrease(results) ==
    IF results = <<>> THEN 0
    ELSE Head(results).credit + ScoreIncrease(Tail(results))

\* if (scoreIncrease > 0) setScore(prev => prev + scoreIncrease)
CommitScore(prev, scoreIncrease) ==
    IF scoreIncrease > 0 THEN prev + scoreIncrease ELSE prev

-----------------------------------------------------------------------------
(* Spawner *)

\* connectedHomes: the indices of the homes with an office and a usable path
ConnectedHomes(blds, roadList) ==
    {h \in 1..Len(blds) :
        /\ IsHome(blds[h])
        /\ findOfficeForHome(blds, blds[h]) # 0
        /\ Usable(findPath(blds[h].position,
                           blds[findOfficeForHome(blds, blds[h])].position, roadList))}

\* spawnVehicleFromBuilding(fromBuilding): the vehicle list after the call
spawnVehicleFromBuilding(vs, vid, blds, h, roadList) ==
    IF ~IsHome(blds[h]) THEN vs
    ELSE LET o == findOfficeForHome(blds, blds[h])
         IN  IF o = 0 THEN vs
             ELSE LET path == findPath(blds[h].position, blds[o].position, roadList)
                  IN  IF Usable(path)
                      THEN Append(vs, NewVehicle(vid, blds[h], blds[o], path.path))
                      ELSE vs

-----------------------------------------------------------------------------
(* Road checks of handleMouseUp.  A sample point of a road is kept as the    *)
(* fraction [xn / den, yn / den]; the comparisons are cross-multiplied.      *)

Frac(pxn, pyn, d) == [xn |-> pxn, yn |-> pyn, den |-> d]

\* the point at t = i / n of the road from s to e (control point c, or NoPoint)
SampleAt(s, e, c, i, n) ==
    IF c = NoPoint
    THEN Frac(s.x * n + (e.x - s.x) * i, s.y * n + (e.y - s.y) * i, n)
    ELSE Frac(Sq(n - i) * s.x + 2 * (n - i) * i * c.x + Sq(i) * e.x,
              Sq(n - i) * s.y + 2 * (n - i) * i * c.y + Sq(i) * e.y, Sq(n))

\* getRiverYAtX(x) for x = p.xn / p.den: the index of the segment pair used for
\* the interpolation, 0 when x lies left of the first segment and Len(river) when
\* no pair holds x.  An empty river gives null (-1).
RiverPairAt(river, p) ==
    IF Len(river) = 0 THEN -1
    ELSE IF \E i \in 1..(Len(river) - 1) :
                p.xn >= river[i].x * p.den /\ p.xn <= river[i + 1].x * p.den
    THEN CHOOSE i \in 1..(Len(river) - 1) :
            /\ p.xn >= river[i].x * p.den /\ p.xn <= river[i + 1].x * p.den
            /\ \A j \in 1..(i - 1) :
                ~(p.xn >= river[j].x * p.den /\ p.xn <= river[j + 1].x * p.den)
    ELSE IF p.xn < river[1].x * p.den THEN 0
    ELSE Len(river)

\* isPointInRiver(point): |point.y - y| < width / 2 + 10 with y and width
\* interpolated at t = tn / td between the two segments (NaN when td = 0)
isPointInRiver(river, p) ==
    LET i == RiverPairAt(river, p)
    IN  IF i = -1 THEN FALSE
        ELSE IF i = 0 \/ i = Len(river)
        THEN LET seg == river[IF i = 0 THEN 1 ELSE i]
             IN  2 * Abs(p.yn - seg.y * p.den) < (seg.width + 20) * p.den
        ELSE LET seg1 == river[i]
                 seg2 == river[i + 1]
                 w == seg2.x - seg1.x
                 td == w * p.den
                 tn == p.xn - seg1.x * p.den
             IN  /\ td # 0
                 /\ 2 * Abs(p.yn * w - (seg1.y * td + (seg2.y - seg1.y) * tn))
                        < seg1.width * td + (seg2.width - seg1.width) * tn + 20 * td

\* doesRoadCrossRiver(start, end): samples at i / steps, steps = max(|dx|, |dy|) / 10,
\* for every integer i <= steps
doesRoadCrossRiver(river, start, end) ==
    LET m == Max2(Abs(end.x - start.x), Abs(end.y - start.y))
    IN  \E i \in 0..(m \div 10) :
            isPointInRiver(river, Frac(start.x * m + (end.x - start.x) * 10 * i,
                                       start.y * m + (end.y - start.y) * 10 * i, m))

\* doesCurveRoadCrossRiver(start, end, control): samples at t = 0, 0.1, ..., 1
doesCurveRoadCrossRiver(river, start, end, control) ==
    \E i \in 0..10 : isPointInRiver(river, SampleAt(start, end, control, i, 10))

\* distance(p, q) < ROAD_OVERLAP_THRESHOLD for two samples at tenths of their
\* roads, both brought to the denominator 100
SamplesClose(p, q) ==
    LET px == p.xn * (100 \div p.den)
        py == p.yn * (100 \div p.den)
        qx == q.xn * (100 \div q.den)
        qy == q.yn * (100 \div q.den)
    IN  Sq(px - qx) + Sq(py - qy) < Sq(100 * ROAD_OVERLAP_THRESHOLD)

\* overlapCount of one existing road: the samples of the new road that are close
\* to some sample of the road
OverlapCount(newStart, newEnd, newControlPoint, road) ==
    Cardinality({i \in 0..10 :
        \E j \in 0..10 :
            SamplesClose(SampleAt(newStart, newEnd, newControlPoint, i, 10),
                         SampleAt(road.start, road.end, road.controlPoint, j, 10))})

\* doRoadsOverlap(newStart, newEnd, existingRoads, newControlPoint):
\* overlapCount > steps * ROAD_OVERLAP_RATIO for some existing road
doRoadsOverlap(newStart, newEnd, existingRoads, newControlPoint) ==
    \E r \in 1..Len(existingRoads) :
        100 * OverlapCount(newStart, newEnd, newControlPoint, existingRoads[r])
            > 10 * ROAD_OVERLAP_RATIO_PERCENT

\* Math.ceil(distance(start, end) / 10)
SampleSteps(start, end) ==
    CHOOSE n \in 0..(Abs(end.x - start.x) + Abs(end.y - start.y)) :
        /\ 100 * Sq(n) >= Dist2(start, end)
        /\ (n = 0 \/ 100 * Sq(n - 1) < Dist2(start, end))

\* the callback of buildings.some in doesRoadIntersectAnyBuilding
RoadHitsBuilding(start, end, control, building) ==
    IF \/ (start.x = building.position.x /\ start.y = building.position.y)
       \/ (end.x = building.position.x /\ end.y = building.position.y)
    THEN FALSE
    ELSE LET halfW == IF IsHome(building) THEN 18 ELSE 20     \* width / 2
             halfH == IF IsHome(building) THEN 15 ELSE 25     \* height / 2
             left == building.position.x - halfW
             right == building.position.x + halfW
             top == building.position.y - halfH
             bottom == building.position.y + halfH
             steps == SampleSteps(start, end)
         IN  \E i \in 0..steps :
                LET p == SampleAt(start, end, control, i, steps)
                IN  /\ p.den # 0
                    /\ p.xn > (left - 2) * p.den
                    /\ p.xn < (right + 2) * p.den
                    /\ p.yn > (top - 2) * p.den
                    /\ p.yn < (bottom + 2) * p.den

\* doesRoadIntersectAnyBuilding(start, end, control)
doesRoadIntersectAnyBuilding(blds, start, end, control) ==
    \E b \in 1..Len(blds) : RoadHitsBuilding(start, end, control, blds[b])

\* faulty variant of RoadAccepted: the length of the drag is not looked at
RoadAcceptedAnyLength(rds, blds, river, start, end, control) ==
    /\ ~(IF control # NoPoint
         THEN doesCurveRoadCrossRiver(river, start, end, control)
         ELSE doesRoadCrossRiver(river, start, end))
    /\ ~doRoadsOverlap(start, end, rds, control)
    /\ ~doesRoadIntersectAnyBuilding(blds, start, end, control)

\* faulty variant of RoadAccepted: the buildings are not looked at
RoadAcceptedOverBuildings(rds, blds, river, start, end, control) ==
    /\ Dist2(start, end) > Sq(GRID_SIZE)
    /\ ~(IF control # NoPoint
         THEN doesCurveRoadCrossRiver(river, start, end, control)
         ELSE doesRoadCrossRiver(river, start, end))
    /\ ~doRoadsOverlap(start, end, rds, control)

\* the three checks of handleMouseUp and its length test
RoadAccepted(rds, blds, river, start, end, control) ==
    /\ Dist2(start, end) > Sq(GRID_SIZE)
    /\ ~(IF control # NoPoint
         THEN doesCurveRoadCrossRiver(river, start, end, control)
         ELSE doesRoadCrossRiver(river, start, end))
    /\ ~doRoadsOverlap(start, end, rds, control)
    /\ ~doesRoadIntersectAnyBuilding(blds, start, end, control)

-----------------------------------------------------------------------------
(* The world of the model: what generateRandomRiver and                      *)
(* generateRandomBuildings returned, and the drags the player may make.      *)

\* a river along the lower edge, away from every building
River == <<[x |-> 0, y |-> 260, width |-> 40], [x |-> 400, y |-> 260, width |-> 40]>>

\* three pairs of a home and an office (generateRandomBuildings, count = 3)
Buildings ==
    <<Building(0, "home", Pt(35, 100)), Building(0, "office", Pt(160, 100)),
      Building(1, "home", Pt(20, 190)), Building(1, "office", Pt(180, 190)),
      Building(2, "home", Pt(20, 10)), Building(2, "office", Pt(180, 10))>>

Drag(s, e, c) == [start |-> s, end |-> e, controlPoint |-> c]

\* the drags of the simulation: the street from home 0 to office 0 drawn in three
\* pieces that meet at (80,100) and (120,100), a drag of length GRID_SIZE (too
\* short), one into the river, one through the footprint of home 0 and one that
\* ends where it started.  A drag
\* starts and ends on a building, on a road end or on the grid (handleMouseDown,
\* handleMouseMove).
SimDrags ==
    {Drag(Pt(35, 100), Pt(80, 100), NoPoint),
     Drag(Pt(80, 100), Pt(120, 100), NoPoint),
     Drag(Pt(120, 100), Pt(160, 100), NoPoint),
     Drag(Pt(80, 60), Pt(80, 80), NoPoint),
     Drag(Pt(120, 140), Pt(120, 240), NoPoint),
     Drag(Pt(0, 100), Pt(80, 100), NoPoint),
     Drag(Pt(80, 100), Pt(80, 100), NoPoint)}

\* the further drags of the path-finding specification: a street crossing the
\* middle piece and a curved bypass from (80,100) to office 0, its control point
\* 0.4 of its length off its middle (handleMouseMove)
NetDrags ==
    SimDrags \cup
    {Drag(Pt(100, 60), Pt(100, 140), NoPoint),
     Drag(Pt(80, 100), Pt(160, 100), Pt(120, 68))}

\* the start and end points of the path queries: the two buildings of colour 0, a
\* point beside (120,100), the points 50 px and 51 px below (80,100) and a
\* point below the crossing street
QueryPoints ==
    {Pt(35, 100), Pt(160, 100), Pt(120, 110), Pt(80, 150), Pt(80, 151),
     Pt(100, 150)}

\* no findPath call yet; `again` is the result of the same call made once more
NoQuery ==
    [asked |-> FALSE, start |-> Pt(0, 0), end |-> Pt(0, 0), roads |-> <<>>,
     result |-> NoPath, repeated |-> FALSE, again |-> NoPath]

\* the session the component starts with
FirstSession == [resets |-> 0, firstId |-> 1]

\* no second call of findIntersections yet
NoBuild == [done |-> FALSE, roads |-> <<>>, before |-> <<>>, result |-> <<>>]

\* no run of the game loop yet
NoTick ==
    [ran |-> FALSE, vehicles |-> <<>>, intersections |-> <<>>, roads |-> <<>>,
     currentTime |-> 0, updatedVehicles |-> <<>>, scoreBefore |-> 0, scoreAfter |-> 0]

-----------------------------------------------------------------------------
(* Actions *)

Init ==
    /\ roads = <<>>
    /\ vehicles = <<>>
    /\ intersections = <<>>
    /\ score = 0
    /\ riverSegments = River
    /\ buildings = Buildings
    /\ now = 0
    /\ nextId = 0
    /\ query = NoQuery
    /\ lastTick = NoTick
    /\ build = NoBuild
    /\ session = FirstSession

\* faulty variant of AddRoad: the intersections are left as they were
AddRoadKeepsIntersections(d) ==
    /\ Len(roads) < MaxRoads
    /\ IF RoadAccepted(roads, buildings, riverSegments, d.start, d.end, d.controlPoint)
       THEN LET newRoad == [id |-> Len(roads) + 1, start |-> d.start, end |-> d.end,
                            controlPoint |-> d.controlPoint]
            IN  roads' = Append(roads, newRoad)
       ELSE UNCHANGED roads
    /\ UNCHANGED <<intersections, vehicles, score, riverSegments, buildings, now, nextId,
                   query, lastTick, build, session>>

\* faulty variant of AddRoad: an accepted road sends every vehicle back to the
\* first target of its path
AddRoadRestartsVehicles(d) ==
    /\ Len(roads) < MaxRoads
    /\ IF RoadAccepted(roads, buildings, riverSegments, d.start, d.end, d.controlPoint)
       THEN LET newRoad == [id |-> Len(roads) + 1, start |-> d.start, end |-> d.end,
                            controlPoint |-> d.controlPoint]
                updated == Append(roads, newRoad)
            IN  /\ roads' = updated
                /\ intersections' = findIntersections(updated)
                /\ vehicles' = [i \in 1..Len(vehicles) |->
                                    [vehicles[i] EXCEPT !.targetIndex = 1]]
       ELSE UNCHANGED <<roads, intersections, vehicles>>
    /\ UNCHANGED <<score, riverSegments, buildings, now, nextId, query, lastTick,
                   build, session>>

\* handleMouseUp with drawStart, currentEnd and controlPoint as left by the drag
AddRoad(d) ==
    /\ Len(roads) < MaxRoads
    /\ IF RoadAccepted(roads, buildings, riverSegments, d.start, d.end, d.controlPoint)
       THEN LET newRoad == [id |-> Len(roads) + 1, start |-> d.start, end |-> d.end,
                            controlPoint |-> d.controlPoint]
                updated == Append(roads, newRoad)
            IN  /\ roads' = updated
                /\ intersections' = findIntersections(updated)
       ELSE UNCHANGED <<roads, intersections>>
    /\ UNCHANGED <<vehicles, score, riverSegments, buildings, now, nextId, query, lastTick,
                   build,
                   session>>

\* spawnVehicle(): nothing happens when no home is connected to its office,
\* otherwise one of the connected homes is drawn at random
spawnVehicle ==
    LET connectedHomes == ConnectedHomes(buildings, roads)
    IN  IF connectedHomes = {}
        THEN UNCHANGED vars
        ELSE \E h \in connectedHomes :
                /\ vehicles' = spawnVehicleFromBuilding(vehicles, nextId + 1, buildings,
                                                        h, roads)
                /\ nextId' = nextId + 1
                /\ UNCHANGED <<roads, intersections, score, riverSegments, buildings,
                               now, query, lastTick, build,
                   session>>

\* the interval callback of the auto-spawn effect
AutoSpawn ==
    /\ nextId < MaxSpawns
    /\ Len(roads) # 0
    /\ Len(vehicles) < MAX_VEHICLES
    /\ spawnVehicle

\* the add-vehicle button (disabled while there is no road)
ManualSpawn ==
    /\ nextId < MaxSpawns
    /\ Len(roads) # 0
    /\ spawnVehicle

\* one run of the game loop's interval callback.  A run over an empty vehicle
\* list steps no vehicle and adds nothing to the score; the clock value it read
\* is used nowhere, so the model lets time stand still while no vehicle is out.
Tick ==
    /\ now < MaxTicks * TICK_MS
    /\ LET currentTime == now + TICK_MS
           results == StepAll(vehicles, intersections, currentTime, buildings, roads)
       IN  /\ vehicles' = Survivors(results)
           /\ score' = CommitScore(score, ScoreIncrease(results))
           /\ now' = IF vehicles = <<>> THEN now ELSE currentTime
           /\ lastTick' = [ran |-> TRUE, vehicles |-> vehicles,
                           intersections |-> intersections, roads |-> roads,
                           currentTime |-> currentTime,
                           updatedVehicles |-> Survivors(results),
                           scoreBefore |-> score,
                           scoreAfter |-> CommitScore(score, ScoreIncrease(results))]
    /\ UNCHANGED <<roads, intersections, riverSegments, buildings, nextId, query, build,
                   session>>

\* findPath(start, end, roads) called through the external interface
PathQuery(s, e) ==
    /\ query' = [asked |-> TRUE, start |-> s, end |-> e, roads |-> roads,
                 result |-> findPath(s, e, roads), repeated |-> FALSE, again |-> NoPath]
    /\ UNCHANGED <<roads, vehicles, intersections, score, riverSegments, buildings, now, nextId,
                   lastTick, build,
                   session>>

\* the same call once more: same start, same end, same road list
PathQueryAgain ==
    /\ query.asked
    /\ ~query.repeated
    /\ query' = [query EXCEPT !.repeated = TRUE,
                              !.again = findPath(query.start, query.end, query.roads)]
    /\ UNCHANGED <<roads, vehicles, intersections, score, riverSegments, buildings, now, nextId,
                   lastTick, build,
                   session>>

\* findIntersections called once more on the road list as it stands, its result
\* stored as handleMouseUp stores it
Rebuild ==
    /\ intersections' = findIntersections(roads)
    /\ build' = [done |-> TRUE, roads |-> roads, before |-> intersections,
                 result |-> findIntersections(roads)]
    /\ UNCHANGED <<roads, vehicles, score, riverSegments, buildings, now, nextId, query,
                   lastTick, session>>

\* faulty variant of startNewGame: the vehicles are left on the map
startNewGameKeepsVehicles(withRiver) ==
    /\ session.resets < MaxResets
    /\ riverSegments' = IF withRiver THEN River ELSE <<>>
    /\ buildings' = Buildings
    /\ roads' = <<>>
    /\ intersections' = <<>>
    /\ score' = 0
    /\ session' = [resets |-> session.resets + 1, firstId |-> nextId + 1]
    /\ UNCHANGED <<vehicles, now, nextId, query, lastTick, build>>

\* startNewGame(withRiver): a new river (or none), new buildings, and the roads,
\* vehicles, intersections and score set back
startNewGame(withRiver) ==
    /\ session.resets < MaxResets
    /\ riverSegments' = IF withRiver THEN River ELSE <<>>
    /\ buildings' = Buildings
    /\ roads' = <<>>
    /\ vehicles' = <<>>
    /\ intersections' = <<>>
    /\ score' = 0
    /\ session' = [resets |-> session.resets + 1, firstId |-> nextId + 1]
    /\ UNCHANGED <<now, nextId, query, lastTick, build>>

Next ==
    \/ \E d \in SimDrags : AddRoad(d)
    \/ AutoSpawn
    \/ ManualSpawn
    \/ Tick

Spec == Init /\ [][Next]_vars

\* the road network builder and the path finder alone
NextPath ==
    \/ \E d \in NetDrags : ~query.asked /\ AddRoad(d)
    \/ \E s \in QueryPoints, e \in QueryPoints : ~query.asked /\ PathQuery(s, e)
    \/ PathQueryAgain

SpecPath == Init /\ [][NextPath]_vars

-----------------------------------------------------------------------------
(* The game loop as a function of the vehicle list it is given.  The Vehicle *)
(* type has a fourth status, at-home, and the loop has a branch for it       *)
(* (RoadGame.tsx:690), but no statement of the sources sets it: the branch   *)
(* is entered only with a vehicle list that holds such a vehicle.  Below     *)
(* the loop runs on lists of one or two vehicles of every status, on the     *)
(* finished street from home 0 to office 0.                                  *)

TickRoads ==
    <<StraightRoad(1, Pt(35, 100), Pt(80, 100)),
      StraightRoad(2, Pt(80, 100), Pt(120, 100)),
      StraightRoad(3, Pt(120, 100), Pt(160, 100))>>

\* the path findPath gives from home 0 to office 0 on these roads, and back
TickPath == <<Pt(35, 100), Pt(80, 100), Pt(120, 100), Pt(160, 100)>>

TickReturnPath == <<Pt(160, 100), Pt(120, 100), Pt(80, 100), Pt(35, 100)>>

\* the vehicle spawnVehicleFromBuilding creates at home 0
Departing(vid) == NewVehicle(vid, Buildings[1], Buildings[2], TickPath)

\* the same vehicle two moves later
Approaching(vid) == [Departing(vid) EXCEPT !.position = Pt(59, 102)]

\* the vehicle as the arrival branch leaves it at office 0
Arrived(vid) ==
    [Departing(vid) EXCEPT !.position = Pt(160, 104), !.targetIndex = 4,
                           !.direction = <<1, 4>>, !.status = "at-office"]

\* the vehicle as the at-office branch sends it home
Returning(vid) ==
    [Arrived(vid) EXCEPT !.status = "going-home", !.path = TickReturnPath,
                         !.targetIndex = 1, !.position = TickReturnPath[1]]

\* a vehicle marked at-home at the end of its return path
MarkedAtHome(vid) ==
    [Returning(vid) EXCEPT !.status = "at-home", !.position = Pt(35, 96),
                           !.targetIndex = 4, !.direction = <<0, -9>>]

TickVehicles(vid) ==
    {Departing(vid), Approaching(vid), Arrived(vid), Returning(vid), MarkedAtHome(vid)}

TickInputs ==
    {<<v>> : v \in TickVehicles(1)}
        \cup {<<v, w>> : v \in TickVehicles(1), w \in TickVehicles(2)}

InitTick ==
    /\ roads = TickRoads
    /\ intersections = findIntersections(TickRoads)
    /\ vehicles \in TickInputs
    /\ score = 0
    /\ riverSegments = River
    /\ buildings = Buildings
    /\ now = 0
    /\ nextId = Len(vehicles)
    /\ query = NoQuery
    /\ lastTick = NoTick
    /\ build = NoBuild
    /\ session = FirstSession

NextTick == Tick

SpecTick == InitTick /\ [][NextTick]_vars

-----------------------------------------------------------------------------
(* Vocabulary of the properties.  A vehicle is followed from state to state  *)
(* by its id; lastTick holds the vehicles, intersections, roads and clock    *)
(* value the last run of the game loop read and the vehicles it returned.    *)

Ids(vs) == {vs[i].id : i \in 1..Len(vs)}

VehicleOf(vs, vid) == vs[CHOOSE i \in 1..Len(vs) : vs[i].id = vid]

\* the vehicle has come to the end of its path
AtPathEnd(v) == v.targetIndex >= Len(v.path)

\* in the last run of the game loop the vehicle was told to wait: it is kept
\* where it was and its waitTime has grown by one unit
Waited(vid) ==
    /\ vid \in Ids(lastTick.updatedVehicles)
    /\ LET old == VehicleOf(lastTick.vehicles, vid)
           new == VehicleOf(lastTick.updatedVehicles, vid)
       IN  /\ new.waitTime = old.waitTime + 1
           /\ new.position = old.position
           /\ new.targetIndex = old.targetIndex
           /\ new.status = old.status

\* in the last run of the game loop the vehicle advanced towards its target or
\* snapped to it
Advanced(vid) ==
    /\ vid \in Ids(lastTick.updatedVehicles)
    /\ LET old == VehicleOf(lastTick.vehicles, vid)
           new == VehicleOf(lastTick.updatedVehicles, vid)
       IN  /\ new.waitTime = Max2(0, old.waitTime - 1)
           /\ new.status = old.status
           /\ \/ new.position # old.position
              \/ new.targetIndex = old.targetIndex + 1

-----------------------------------------------------------------------------
(* Vehicle lifecycle *)

\* C1: in every step, a vehicle that appears is going-to-office; a vehicle that
\* stays keeps its status, or goes from going-to-office at the end of its path to
\* at-office, or from at-office to going-home; a vehicle that disappears was
\* going-home at the end of its path.  No other status change happens.
C1_StatusStep ==
    /\ \A vid \in Ids(vehicles') \ Ids(vehicles) :
          VehicleOf(vehicles', vid).status = "going-to-office"
    /\ \A vid \in Ids(vehicles) \cap Ids(vehicles') :
          LET old == VehicleOf(vehicles, vid)
              new == VehicleOf(vehicles', vid)
          IN  \/ new.status = old.status
              \/ /\ old.status = "going-to-office"
                 /\ AtPathEnd(old)
                 /\ new.status = "at-office"
              \/ /\ old.status = "at-office"
                 /\ new.status = "going-home"
    /\ \A vid \in Ids(vehicles) \ Ids(vehicles') :
          /\ VehicleOf(vehicles, vid).status = "going-home"
          /\ AtPathEnd(VehicleOf(vehicles, vid))

C1_StatusOrder == [][C1_StatusStep]_vars

\* a trip has been completed and credited while another vehicle, created later,
\* has reached its office: every status change of the lifecycle has been taken
C1_Witness ==
    /\ score > 0
    /\ \E i \in 1..Len(vehicles) : vehicles[i].status = "at-office"

\* the vehicles that complete their going-home leg in the last run of the game loop
Completing ==
    {i \in 1..Len(lastTick.vehicles) :
        /\ lastTick.vehicles[i].status = "going-home"
        /\ AtPathEnd(lastTick.vehicles[i])}

\* C2: a run of the game loop raises the score by SCORE_PER_TRIP for each vehicle
\* that was going-home at the end of its path, and by nothing else; each of these
\* vehicles is gone after the run; the score is what the last run committed, and
\* it counts every vehicle that was created and is no longer active exactly once.
C2_ScorePerTrip ==
    /\ lastTick.ran =>
          /\ lastTick.scoreAfter
                = lastTick.scoreBefore + SCORE_PER_TRIP * Cardinality(Completing)
          /\ \A i \in Completing :
                lastTick.vehicles[i].id \notin Ids(lastTick.updatedVehicles)
          /\ score = lastTick.scoreAfter
    /\ score = SCORE_PER_TRIP * (nextId - Len(vehicles))

\* the last run removed and credited one vehicle and kept another
C2_Witness ==
    /\ lastTick.ran
    /\ Completing # {}
    /\ Len(lastTick.vehicles) > Cardinality(Completing)
    /\ lastTick.scoreAfter = lastTick.scoreBefore + SCORE_PER_TRIP

\* the vehicles marked at-home that the last run of the game loop read
MarkedHome == {i \in 1..Len(lastTick.vehicles) : lastTick.vehicles[i].status = "at-home"}

-----------------------------------------------------------------------------
(* Waiting at intersections.  The conditions are stated on what the last run *)
(* of the game loop read, without the queues the run builds.                 *)

\* the vehicles and the intersection points the last run read
Read == lastTick.vehicles

Points == {lastTick.intersections[k].point : k \in 1..Len(lastTick.intersections)}

Within(v, p, r) == Dist2(v.position, p) < r * r

\* the vehicle is within the inner radius of some intersection
Inside(v) == \E p \in Points : Within(v, p, INNER_RADIUS)

\* the vehicle is in the approach band of p
InBand(v, p) == ~Within(v, p, INNER_RADIUS) /\ Within(v, p, BAND_RADIUS)

\* the arrival time an en-route vehicle holds at p once the run has done its
\* bookkeeping: the time it held before if it is within the zone and held one, the
\* time of the run if it is within the zone and held none, 0 (none) otherwise
RecordedTime(v, p) ==
    IF EnRoute(v) /\ Within(v, p, ZONE_RADIUS)
    THEN IF KeyOf(p) \in DOMAIN v.intersectionArrivalTimes
            /\ v.intersectionArrivalTimes[KeyOf(p)] # 0
         THEN v.intersectionArrivalTimes[KeyOf(p)]
         ELSE lastTick.currentTime
    ELSE 0

\* condition (a): another vehicle of the same status is within the inner radius of p
OtherInside(i, p) ==
    \E j \in 1..Len(Read) :
        /\ Read[j].id # Read[i].id
        /\ Read[j].status = Read[i].status
        /\ Within(Read[j], p, INNER_RADIUS)

\* the vehicles of the status of vehicle i that hold an arrival time at p
SameStatusQueued(i, p) ==
    {j \in 1..Len(Read) : Read[j].status = Read[i].status /\ RecordedTime(Read[j], p) # 0}

\* condition (b): two or more of them, and the earliest (the first in the vehicle
\* list among equals) is not vehicle i
EarlierQueued(i, p) ==
    /\ Cardinality(SameStatusQueued(i, p)) >= 2
    /\ \E j \in SameStatusQueued(i, p) :
          /\ j # i
          /\ \A k \in SameStatusQueued(i, p) :
                \/ RecordedTime(Read[j], p) < RecordedTime(Read[k], p)
                \/ RecordedTime(Read[j], p) = RecordedTime(Read[k], p) /\ j <= k

Blocked(i) ==
    \E p \in Points : InBand(Read[i], p) /\ (OtherInside(i, p) \/ EarlierQueued(i, p))

\* C4: in every run of the game loop, an en-route vehicle within the inner radius
\* of some intersection is not told to wait, whatever the other vehicles and the
\* queues are; if it has path left to travel it advances or snaps to its target.
C4_InsideNeverWaits ==
    lastTick.ran =>
        \A i \in 1..Len(Read) :
            EnRoute(Read[i]) /\ Inside(Read[i]) =>
                /\ ~Waited(Read[i].id)
                /\ ~AtPathEnd(Read[i]) => Advanced(Read[i].id)

\* a vehicle within the inner radius of one intersection and in the approach band
\* of another, where condition (a) or (b) holds, has advanced
C4_Witness ==
    /\ lastTick.ran
    /\ \E i \in 1..Len(Read) :
          /\ EnRoute(Read[i])
          /\ ~AtPathEnd(Read[i])
          /\ Inside(Read[i])
          /\ Blocked(i)
          /\ Advanced(Read[i].id)

\* C5: in every run of the game loop, an en-route vehicle with path left to travel
\* that is within no inner radius is told to wait if and only if it is in the
\* approach band of an intersection for which (a) or (b) holds; otherwise it
\* advances or snaps to its target.
C5_WaitsIffBlocked ==
    lastTick.ran =>
        \A i \in 1..Len(Read) :
            EnRoute(Read[i]) /\ ~AtPathEnd(Read[i]) /\ ~Inside(Read[i]) =>
                /\ Waited(Read[i].id) <=> Blocked(i)
                /\ ~Blocked(i) => Advanced(Read[i].id)

\* a vehicle has waited on account of (b) alone: no vehicle of its status is
\* within the inner radius of an intersection whose approach band it is in
C5_Witness ==
    /\ lastTick.ran
    /\ \E i \in 1..Len(Read) :
          /\ EnRoute(Read[i])
          /\ ~AtPathEnd(Read[i])
          /\ ~Inside(Read[i])
          /\ Waited(Read[i].id)
          /\ \A p \in Points : InBand(Read[i], p) => ~OtherInside(i, p)

C7_OtherStatusNeverBlocks ==
    lastTick.ran =>
        \A i \in 1..Len(Read) :
            (\A j \in 1..Len(Read) : j # i => Read[j].status # Read[i].status) =>
                /\ ~Waited(Read[i].id)
                /\ EnRoute(Read[i]) /\ ~AtPathEnd(Read[i]) => Advanced(Read[i].id)

\* a vehicle in the approach band of an intersection has advanced while a vehicle
\* of another status was within the inner radius of that intersection
C7_Witness ==
    /\ lastTick.ran
    /\ \E p \in Points : \E i, j \in 1..Len(Read) :
          /\ EnRoute(Read[i])
          /\ ~AtPathEnd(Read[i])
          /\ ~Inside(Read[i])
          /\ InBand(Read[i], p)
          /\ Read[j].status # Read[i].status
          /\ Within(Read[j], p, INNER_RADIUS)
          /\ \A k \in 1..Len(Read) : k # i => Read[k].status # Read[i].status
          /\ Advanced(Read[i].id)

\* C8: in every run of the game loop, an at-office vehicle stays in the active
\* set; if the time of the run is OFFICE_WAIT_TIME or more past its
\* officeArrivalTime and createReturnPath gives a path of two or more nodes, it
\* turns going-home on that path with targetIndex 1, its position the first node
\* of the path and no arrival time; otherwise it is left as it is, at-office.
C8_OfficeDwell ==
    lastTick.ran =>
        \A i \in 1..Len(Read) :
            Read[i].status = "at-office" =>
                /\ Read[i].id \in Ids(lastTick.updatedVehicles)
                /\ LET v == Read[i]
                       new == VehicleOf(lastTick.updatedVehicles, v.id)
                       returnPath == createReturnPath(v, buildings, lastTick.roads)
                   IN  IF /\ lastTick.currentTime - v.officeArrivalTime >= OFFICE_WAIT_TIME
                          /\ returnPath.found
                          /\ Len(returnPath.path) >= 2
                       THEN /\ new.status = "going-home"
                            /\ new.path = returnPath.path
                            /\ new.targetIndex = 1
                            /\ new.position = returnPath.path[1]
                            /\ new.intersectionArrivalTimes = EmptyTimes
                            /\ new = [v EXCEPT !.status = "going-home",
                                               !.path = returnPath.path,
                                               !.targetIndex = 1,
                                               !.position = returnPath.path[1],
                                               !.intersectionArrivalTimes = EmptyTimes]
                       ELSE new = v

\* a vehicle that held arrival times has turned going-home in the run whose time
\* was exactly OFFICE_WAIT_TIME past its officeArrivalTime
C8_Witness ==
    /\ lastTick.ran
    /\ \E i \in 1..Len(Read) :
          /\ Read[i].status = "at-office"
          /\ lastTick.currentTime - Read[i].officeArrivalTime = OFFICE_WAIT_TIME
          /\ Read[i].intersectionArrivalTimes # EmptyTimes
          /\ Read[i].id \in Ids(lastTick.updatedVehicles)
          /\ VehicleOf(lastTick.updatedVehicles, Read[i].id).status = "going-home"

-----------------------------------------------------------------------------
(* Path finding.  The graph of a query is the one findPath builds from the   *)
(* roads it is given; distances in it are counted here layer by layer,       *)
(* without a queue.                                                          *)

\* the keys of the nodes and the edges (pairs of keys) of the graph of the query
QueryNodes ==
    LET nodes == AllNodes(query.roads)
    IN  {nodes[i] : i \in 1..Len(nodes)}

QueryEdges ==
    LET edges == EdgesOf(query.roads,
                         CrossingsOf(query.roads, Pairs(Len(query.roads))))
    IN  {<<KeyOf(edges[i][1]), KeyOf(edges[i][2])>> : i \in 1..Len(edges)}

\* the nodes one edge away from a node of s
Adjacent(s) ==
    {e[2] : e \in {f \in QueryEdges : f[1] \in s}}
        \cup {e[1] : e \in {f \in QueryEdges : f[2] \in s}}

\* the least number of edges from a node of the layer to the target, the layer
\* being n edges from the start; -1 when the target cannot be reached
RECURSIVE EdgesTo(_, _, _, _)
EdgesTo(target, reached, layer, n) ==
    IF target \in layer THEN n
    ELSE LET next == Adjacent(layer) \ reached
         IN  IF next = {} THEN -1
             ELSE EdgesTo(target, reached \cup next, next, n + 1)

MinEdges(from, to) == EdgesTo(to, {from}, {from}, 0)

\* the nodes nearest to the point p
Nearest(p) ==
    {k \in QueryNodes :
        \A m \in QueryNodes : Dist2(PointOfKey(k), p) <= Dist2(PointOfKey(m), p)}

\* every node is farther than MAX_BUILDING_TO_ROAD_DISTANCE from p
FarFromRoads(p) ==
    \A k \in QueryNodes : Dist2(PointOfKey(k), p) > Sq(MAX_BUILDING_TO_ROAD_DISTANCE)

\* C9: a path returned by findPath has the least number of edges of all paths of
\* the graph between its first and its last node, which are nodes nearest to the
\* start and to the end of the query.
C9_FewestEdges ==
    query.asked /\ query.result.found =>
        LET path == query.result.path
        IN  /\ Len(path) >= 1
            /\ KeyOf(path[1]) \in Nearest(query.start)
            /\ KeyOf(path[Len(path)]) \in Nearest(query.end)
            /\ Len(path) - 1 = MinEdges(KeyOf(path[1]), KeyOf(path[Len(path)]))

\* a path of one edge was returned on roads that also join its two ends by two
\* edges: the curved bypass and the two pieces of street under it
C9_Witness ==
    /\ query.asked
    /\ query.result.found
    /\ Len(query.result.path) = 2
    /\ \E k \in QueryNodes :
          /\ <<KeyOf(query.result.path[1]), k>> \in QueryEdges
          /\ <<k, KeyOf(query.result.path[2])>> \in QueryEdges

\* C10: findPath returns no path when every node is farther than 50 px from the
\* start or every node is farther than 50 px from the end, however the nodes
\* nearest to the two points are connected; a path it returns starts at a node
\* nearest to the start and ends at a node nearest to the end, each within 50 px.
C10_SnapWithinFifty ==
    query.asked /\ Len(query.roads) > 0 =>
        /\ FarFromRoads(query.start) \/ FarFromRoads(query.end) => ~query.result.found
        /\ query.result.found =>
              LET path == query.result.path
              IN  /\ KeyOf(path[1]) \in Nearest(query.start)
                  /\ KeyOf(path[Len(path)]) \in Nearest(query.end)
                  /\ Dist2(path[1], query.start) <= Sq(MAX_BUILDING_TO_ROAD_DISTANCE)
                  /\ Dist2(path[Len(path)], query.end) <= Sq(MAX_BUILDING_TO_ROAD_DISTANCE)

\* no path was returned for a start 51 px from its nearest node and an end on a
\* node, although the two nodes are joined in the graph
C10_Witness ==
    /\ query.asked
    /\ Len(query.roads) > 0
    /\ ~query.result.found
    /\ FarFromRoads(query.start)
    /\ ~FarFromRoads(query.end)
    /\ \E k \in Nearest(query.start), m \in Nearest(query.end) :
          k # m /\ MinEdges(k, m) > 0

-----------------------------------------------------------------------------
(* Path finding on a given road list.  The graph of a road list is stated    *)
(* here as sets, for any list, so that a list can be compared with the list  *)
(* that lacks one of its roads.                                              *)

\* the keys of the nodes of the graph of a road list
GraphNodes(roadList) ==
    LET nodes == AllNodes(roadList)
    IN  {nodes[i] : i \in 1..Len(nodes)}

\* its edges, as pairs of keys
GraphEdges(roadList) ==
    LET edges == EdgesOf(roadList, CrossingsOf(roadList, Pairs(Len(roadList))))
    IN  {<<KeyOf(edges[i][1]), KeyOf(edges[i][2])>> : i \in 1..Len(edges)}

\* the nodes that can be reached from the set s along edges
RECURSIVE Reach(_, _)
Reach(roadList, s) ==
    LET more == {e[2] : e \in {f \in GraphEdges(roadList) : f[1] \in s}}
                    \cup {e[1] : e \in {f \in GraphEdges(roadList) : f[2] \in s}}
    IN  IF more \subseteq s THEN s ELSE Reach(roadList, s \cup more)

\* the nodes of the road list nearest to the point p
NearestIn(roadList, p) ==
    {k \in GraphNodes(roadList) :
        \A m \in GraphNodes(roadList) : Dist2(PointOfKey(k), p) <= Dist2(PointOfKey(m), p)}

\* no node nearest to s is joined to a node nearest to e
Disconnected(roadList, s, e) ==
    \A k \in NearestIn(roadList, s) : NearestIn(roadList, e) \cap Reach(roadList, {k}) = {}

\* the road list without its r-th road
WithoutRoad(roadList, r) ==
    [i \in 1..(Len(roadList) - 1) |-> IF i < r THEN roadList[i] ELSE roadList[i + 1]]

\* C11: findPath returns no path when the nodes nearest to start and end are not
\* joined in the graph of the roads it is given; and when a path was returned and
\* the two nodes are not joined once one road is taken out of the list, findPath on
\* the list without that road returns no path.
C11_DisconnectedGivesNone ==
    query.asked /\ Len(query.roads) > 0 =>
        /\ Disconnected(query.roads, query.start, query.end) => ~query.result.found
        /\ \A r \in 1..Len(query.roads) :
              LET rest == WithoutRoad(query.roads, r)
              IN  /\ query.result.found
                  /\ Len(rest) > 0
                  /\ Disconnected(rest, query.start, query.end)
                  => ~findPath(query.start, query.end, rest).found

\* the search ran dry: start and end are each within 50 px of a node, the two
\* nodes are not joined, and no path was returned; with one more road between
\* them the same query is answered
C11_Witness ==
    /\ query.asked
    /\ Len(query.roads) > 0
    /\ ~query.result.found
    /\ ~FarFromRoads(query.start)
    /\ ~FarFromRoads(query.end)
    /\ Disconnected(query.roads, query.start, query.end)
    /\ \E d \in NetDrags :
          findPath(query.start, query.end,
                   Append(query.roads, [id |-> Len(query.roads) + 1, start |-> d.start,
                                        end |-> d.end, controlPoint |-> d.controlPoint])).found

-----------------------------------------------------------------------------
(* A town whose first home and office stand 60 px apart, so that one node of *)
(* the network can be the nearest to both.  generateOffice keeps an office   *)
(* MIN_HOME_OFFICE_DISTANCE from the homes only while its random search      *)
(* succeeds; its fallbacks (utils.ts:403-422) do not.                        *)

NearBuildings ==
    <<Building(0, "home", Pt(50, 85)), Building(0, "office", Pt(110, 85)),
      Building(1, "home", Pt(20, 190)), Building(1, "office", Pt(180, 190))>>

\* a street below the first pair, whose two ends are the nodes nearest to the
\* home and to the office; a street that starts between the two buildings, at
\* (80,100), nearer to both than any other node, and runs down across the first;
\* a street from the second home to the second office
NearDrags ==
    {Drag(Pt(40, 120), Pt(120, 120), NoPoint),
     Drag(Pt(80, 100), Pt(80, 200), NoPoint),
     Drag(Pt(20, 190), Pt(180, 190), NoPoint)}

InitNear ==
    /\ roads = <<>>
    /\ vehicles = <<>>
    /\ intersections = <<>>
    /\ score = 0
    /\ riverSegments = River
    /\ buildings = NearBuildings
    /\ now = 0
    /\ nextId = 0
    /\ query = NoQuery
    /\ lastTick = NoTick
    /\ build = NoBuild
    /\ session = FirstSession

\* the player draws roads and leaves the spawning to the interval
NextNear ==
    \/ \E d \in NearDrags : AddRoad(d)
    \/ AutoSpawn
    \/ Tick

SpecNear == InitNear /\ [][NextNear]_vars

\* the homes of the town, each with its office (0 for none)
Homes == {h \in 1..Len(buildings) : buildings[h].id.role = "home"}

OfficeOf(h) ==
    IF \E o \in 1..Len(buildings) :
            buildings[o].id = [color |-> buildings[h].id.color, role |-> "office"]
    THEN CHOOSE o \in 1..Len(buildings) :
            buildings[o].id = [color |-> buildings[h].id.color, role |-> "office"]
    ELSE 0

\* start and end have one and the same nearest node on the road list, within 50 px
SameNode(roadList, s, e) ==
    /\ Len(roadList) > 0
    /\ Cardinality(NearestIn(roadList, s)) = 1
    /\ NearestIn(roadList, s) = NearestIn(roadList, e)
    /\ \A k \in NearestIn(roadList, s) :
          /\ Dist2(PointOfKey(k), s) <= Sq(MAX_BUILDING_TO_ROAD_DISTANCE)
          /\ Dist2(PointOfKey(k), e) <= Sq(MAX_BUILDING_TO_ROAD_DISTANCE)

\* C12: when start and end have the same nearest node, findPath returns the path
\* of that one node; no vehicle travels on a path of fewer than two nodes, so that
\* the spawner has created none from such a path; and an at-office vehicle whose
\* return path has fewer than two nodes is left as it is by the run of the game
\* loop, however long it has dwelt.
C12_SingleNodeUnusable ==
    /\ \A h \in Homes :
          OfficeOf(h) # 0 /\ SameNode(roads, buildings[h].position,
                                      buildings[OfficeOf(h)].position) =>
              /\ \A k \in NearestIn(roads, buildings[h].position) :
                    findPath(buildings[h].position, buildings[OfficeOf(h)].position, roads)
                        = [found |-> TRUE, path |-> <<PointOfKey(k)>>]
              /\ \A k \in NearestIn(roads, buildings[h].position) :
                    findPath(buildings[OfficeOf(h)].position, buildings[h].position, roads)
                        = [found |-> TRUE, path |-> <<PointOfKey(k)>>]
    /\ \A i \in 1..Len(vehicles) : Len(vehicles[i].path) >= 2
    /\ lastTick.ran =>
          \A i \in 1..Len(lastTick.vehicles) :
              LET v == lastTick.vehicles[i]
                  back == createReturnPath(v, buildings, lastTick.roads)
              IN  v.status = "at-office" /\ Len(back.path) < 2 =>
                      /\ v.id \in Ids(lastTick.updatedVehicles)
                      /\ VehicleOf(lastTick.updatedVehicles, v.id) = v

\* a vehicle has dwelt long enough at its office, the return path found for it
\* is a single node, and the run of the game loop has left it at the office
C12_Witness ==
    /\ lastTick.ran
    /\ lastTick.roads = roads
    /\ \E i \in 1..Len(lastTick.vehicles) :
          LET v == lastTick.vehicles[i]
              back == createReturnPath(v, buildings, lastTick.roads)
          IN  /\ v.status = "at-office"
              /\ lastTick.currentTime - v.officeArrivalTime >= OFFICE_WAIT_TIME
              /\ back.found
              /\ Len(back.path) = 1
              /\ v.id \in Ids(lastTick.updatedVehicles)
              /\ VehicleOf(lastTick.updatedVehicles, v.id).status = "at-office"

-----------------------------------------------------------------------------
(* Repeated calls *)

-----------------------------------------------------------------------------
(* The road network builder on the streets of a small quarter *)

\* the drags of the builder's specification: the home street and its middle
\* piece, a street that crosses the middle piece 3 px from its end (80,100), the
\* two sides that make a triangle with the middle piece, a long street and a
\* street crossing it, a curved street from (120,100) whose chord crosses the
\* long street, two streets that cross at (84,104), 4 px right of and 4 px
\* below the end (80,100), and two streets that cross the long street at
\* (100,60) and at (104,60) and each other at (102,62)
BuildDrags ==
    {Drag(Pt(35, 100), Pt(80, 100), NoPoint),
     Drag(Pt(80, 100), Pt(120, 100), NoPoint),
     Drag(Pt(100, 0), Pt(80, 120), NoPoint),
     Drag(Pt(80, 100), Pt(100, 40), NoPoint),
     Drag(Pt(100, 40), Pt(120, 100), NoPoint),
     Drag(Pt(0, 60), Pt(200, 60), NoPoint),
     Drag(Pt(100, 0), Pt(100, 120), NoPoint),
     Drag(Pt(120, 100), Pt(120, 20), Pt(88, 60)),
     Drag(Pt(80, 100), Pt(140, 160), NoPoint),
     Drag(Pt(80, 120), Pt(100, 40), NoPoint),
     Drag(Pt(60, 20), Pt(120, 80), NoPoint),
     Drag(Pt(120, 40), Pt(40, 140), NoPoint)}

NextNet ==
    \/ \E d \in BuildDrags : AddRoad(d)
    \/ Rebuild

SpecNet == Init /\ [][NextNet]_vars

\* the points of a list of intersections
PointsOf(ints) == {ints[i].point : i \in 1..Len(ints)}

\* the road ends of a road list, one element for either end of every road
RoadEnds(roadList) == (1..Len(roadList)) \X {"start", "end"}

EndAt(roadList, e) == IF e[2] = "start" THEN roadList[e[1]].start ELSE roadList[e[1]].end

\* how many road ends lie exactly on p
EndsOn(roadList, p) == Cardinality({e \in RoadEnds(roadList) : EndAt(roadList, e) = p})

\* p is what getLineIntersection returns for two straight roads of the list
IsCrossingPoint(roadList, p) ==
    \E i, j \in 1..Len(roadList) :
        /\ i < j
        /\ IsStraight(roadList[i]) /\ IsStraight(roadList[j])
        /\ LET hit == getLineIntersection(roadList[i].start, roadList[i].end,
                                          roadList[j].start, roadList[j].end)
           IN  hit.found /\ hit.point = p

\* the points where road ends lie, as a set
EndPoints(roadList) == {EndAt(roadList, e) : e \in RoadEnds(roadList)}

\* three straight roads that pairwise share one end, at three different points
IsTriangle(roadList) ==
    /\ Len(roadList) = 3
    /\ \A i \in 1..3 : IsStraight(roadList[i])
    /\ Cardinality(EndPoints(roadList)) = 3
    /\ \A p \in EndPoints(roadList) : EndsOn(roadList, p) = 2

\* C14: the builder returns a point as a junction exactly when two or more road
\* ends, of straight or curved roads, lie on that very coordinate pair: every
\* such point is returned, and every returned point that is not the crossing
\* of two straight roads is such a point.  Three straight roads forming a
\* triangle give exactly the three corners.
C14_JunctionIffSharedEnd ==
    /\ \A p \in EndPoints(roads) : EndsOn(roads, p) >= 2 => p \in PointsOf(intersections)
    /\ \A p \in PointsOf(intersections) :
          ~IsCrossingPoint(roads, p) => EndsOn(roads, p) >= 2
    /\ \A p \in EndPoints(roads) :
          EndsOn(roads, p) < 2 /\ ~IsCrossingPoint(roads, p) => p \notin PointsOf(intersections)
    /\ IsTriangle(roads) =>
          /\ Len(intersections) = 3
          /\ PointsOf(intersections) = EndPoints(roads)

\* the triangle is drawn and its three corners are the intersections
C14_Witness ==
    /\ IsTriangle(roads)
    /\ Len(intersections) = 3
    /\ PointsOf(intersections) = EndPoints(roads)

\* a curved road shares an end with a straight one and the point is returned
C14_WitnessCurved ==
    \E i, j \in 1..Len(roads) :
        /\ ~IsStraight(roads[i]) /\ IsStraight(roads[j])
        /\ roads[i].start \in {roads[j].start, roads[j].end}
        /\ roads[i].start \in PointsOf(intersections)

\* what getLineIntersection gives for the segments from start to end of two roads
HitOf(roadList, i, j) ==
    getLineIntersection(roadList[i].start, roadList[i].end,
                        roadList[j].start, roadList[j].end)

\* the pairs of roads of the list, the first before the second
RoadPairs(roadList) == {pr \in (1..Len(roadList)) \X (1..Len(roadList)) : pr[1] < pr[2]}

BothStraight(roadList, pr) == IsStraight(roadList[pr[1]]) /\ IsStraight(roadList[pr[2]])

\* q differs from p by less than 5 px in x and by less than 5 px in y
NearInBothAxes(q, p) == Abs(q.x - p.x) < DEDUP_DISTANCE /\ Abs(q.y - p.y) < DEDUP_DISTANCE

\* q is at a distance of 5 px or less from p
WithinDistance(q, p) == Dist2(q, p) <= Sq(DEDUP_DISTANCE)

\* C15: for every pair of straight roads whose segments meet with both
\* parameters in [0.01, 0.99] the rounded meeting point is among the
\* intersections, unless an intersection less than 5 px away in x and less than
\* 5 px away in y is; the meeting point of a pair with a control point is not
\* returned on account of that pair; two straight roads that cross and share
\* no end give exactly one intersection, the crossing.
C15_CrossingUnlessNearInBothAxes ==
    /\ \A pr \in RoadPairs(roads) :
          LET hit == HitOf(roads, pr[1], pr[2])
          IN  BothStraight(roads, pr) /\ hit.found =>
                \/ hit.point \in PointsOf(intersections)
                \/ \E q \in PointsOf(intersections) : NearInBothAxes(q, hit.point)
    /\ \A pr \in RoadPairs(roads) :
          LET hit == HitOf(roads, pr[1], pr[2])
          IN  /\ ~BothStraight(roads, pr) /\ hit.found
              /\ EndsOn(roads, hit.point) < 2
              /\ ~IsCrossingPoint(roads, hit.point)
              => hit.point \notin PointsOf(intersections)
    /\ Len(roads) = 2 /\ BothStraight(roads, <<1, 2>>) /\ HitOf(roads, 1, 2).found
       /\ Cardinality(EndPoints(roads)) = 4
       => intersections = <<Intersection(HitOf(roads, 1, 2).point)>>

\* C15 as stated: the crossing is among the intersections unless an
\* intersection lies at a distance of 5 px or less from it.
C15_CrossingUnlessWithin5px ==
    \A pr \in RoadPairs(roads) :
        LET hit == HitOf(roads, pr[1], pr[2])
        IN  BothStraight(roads, pr) /\ hit.found =>
              \/ hit.point \in PointsOf(intersections)
              \/ \E q \in PointsOf(intersections) : WithinDistance(q, hit.point)

\* two straight roads cross 4 px right of and 4 px below a junction: the
\* crossing, farther than 5 px from every intersection, is not returned
C15_Witness ==
    \E pr \in RoadPairs(roads) :
        LET hit == HitOf(roads, pr[1], pr[2])
        IN  /\ BothStraight(roads, pr) /\ hit.found
            /\ hit.point \notin PointsOf(intersections)
            /\ \E q \in PointsOf(intersections) : NearInBothAxes(q, hit.point)
            /\ \A q \in PointsOf(intersections) : ~WithinDistance(q, hit.point)

\* the long street and the street crossing it give the one intersection (100,60)
C15_WitnessCross ==
    /\ Len(roads) = 2
    /\ intersections = <<Intersection(Pt(100, 60))>>

\* p lies on the straight road strictly between its two ends
OnInterior(p, road) ==
    LET dx == road.end.x - road.start.x
        dy == road.end.y - road.start.y
        dot == (p.x - road.start.x) * dx + (p.y - road.start.y) * dy
    IN  /\ (p.x - road.start.x) * dy - (p.y - road.start.y) * dx = 0
        /\ dot > 0
        /\ dot < Sq(dx) + Sq(dy)

\* road i ends (or starts) at e, on the interior of road j, both straight
EndsOnRoad(roadList, e, j) ==
    /\ e[1] # j
    /\ IsStraight(roadList[e[1]]) /\ IsStraight(roadList[j])
    /\ OnInterior(EndAt(roadList, e), roadList[j])

\* the other end of the road of which e is an end
OtherEnd(roadList, e) == IF e[2] = "start" THEN roadList[e[1]].end ELSE roadList[e[1]].start

\* C16: where a straight road ends on the interior of another straight road,
\* the builder returns the meeting point as an intersection and findPath
\* finds a path from the far end of the first road to either end of the second.
C16_EndOnRoadIsJunction ==
    \A e \in RoadEnds(roads), j \in 1..Len(roads) :
        EndsOnRoad(roads, e, j) =>
            /\ EndAt(roads, e) \in PointsOf(intersections)
            /\ findPath(OtherEnd(roads, e), roads[j].start, roads).found
            /\ findPath(OtherEnd(roads, e), roads[j].end, roads).found

\* C16, the builder's half alone
C16_BuilderReturnsMeetingPoint ==
    \A e \in RoadEnds(roads), j \in 1..Len(roads) :
        EndsOnRoad(roads, e, j) => EndAt(roads, e) \in PointsOf(intersections)

\* C16, the path finder's half alone
C16_PathThroughMeetingPoint ==
    \A e \in RoadEnds(roads), j \in 1..Len(roads) :
        EndsOnRoad(roads, e, j) =>
            /\ findPath(OtherEnd(roads, e), roads[j].start, roads).found
            /\ findPath(OtherEnd(roads, e), roads[j].end, roads).found

NearSegment(p, road, r) ==
    LET dx == road.end.x - road.start.x
        dy == road.end.y - road.start.y
        dot == (p.x - road.start.x) * dx + (p.y - road.start.y) * dy
        perp == (p.x - road.start.x) * dy - (p.y - road.start.y) * dx
    IN  IF dot <= 0 THEN Dist2(p, road.start) <= Sq(r)
        ELSE IF dot >= Sq(dx) + Sq(dy) THEN Dist2(p, road.end) <= Sq(r)
        ELSE Sq(perp) <= Sq(r) * (Sq(dx) + Sq(dy))

\* the distance of p from one of the points at i / 20 of the curved road is r
\* or less
NearCurve(p, road, r) ==
    \E i \in 0..20 :
        LET q == SampleAt(road.start, road.end, road.controlPoint, i, 20)
        IN  Sq(p.x * q.den - q.xn) + Sq(p.y * q.den - q.yn) <= Sq(r * q.den)

NearRoad(p, road, r) ==
    IF IsStraight(road) THEN NearSegment(p, road, r) ELSE NearCurve(p, road, r)

\* the roads of the list that pass p at a distance of r or less
RoadsNear(roadList, p, r) == {i \in 1..Len(roadList) : NearRoad(p, roadList[i], r)}

\* C18: every intersection the builder has returned lies within 5 px of two or
\* more different roads of the list it was built from.
C18_NearTwoRoads ==
    \A p \in PointsOf(intersections) :
        Cardinality(RoadsNear(roads, p, 5)) >= 2

\* a crossing that rounding has put off one of its two roads is among the
\* intersections, together with a junction
C18_Witness ==
    /\ \E p \in PointsOf(intersections) :
          /\ EndsOn(roads, p) = 0
          /\ Cardinality(RoadsNear(roads, p, 5)) = 2
          /\ \E i \in RoadsNear(roads, p, 5) : ~OnInterior(p, roads[i])
    /\ \E p \in PointsOf(intersections) : EndsOn(roads, p) >= 2

-----------------------------------------------------------------------------
(* The town before the first road is drawn *)

\* no road is drawn: the builder and the path finder are called on the empty
\* road list, spawnVehicle() is called as the button and the interval would
\* call it were they not switched off while there is no road, and the game
\* loop runs
NextEmpty ==
    \/ Rebuild
    \/ \E s \in QueryPoints, e \in QueryPoints : ~query.asked /\ PathQuery(s, e)
    \/ PathQueryAgain
    \/ spawnVehicle
    \/ Tick

SpecEmpty == Init /\ [][NextEmpty]_vars

\* C19: while the road list is empty the builder returns no intersection,
\* findPath returns no path whatever the start and the end, no home counts as
\* connected, and no vehicle is created.
C19_EmptyRoadsNothing ==
    roads = <<>> =>
        /\ intersections = <<>>
        /\ build.done => build.roads = <<>> /\ build.result = <<>>
        /\ query.asked => query.roads = <<>> /\ ~query.result.found
        /\ query.repeated => ~query.again.found
        /\ ConnectedHomes(buildings, roads) = {}
        /\ vehicles = <<>>
        /\ nextId = 0
        /\ lastTick.ran => lastTick.updatedVehicles = <<>>

\* on the empty road list the builder has been called, findPath has been asked
\* for the way from home 0 to office 0, and the game loop has run
C19_Witness ==
    /\ roads = <<>>
    /\ build.done /\ build.result = <<>>
    /\ query.asked /\ query.start = Pt(35, 100) /\ query.end = Pt(160, 100)
    /\ ~query.result.found
    /\ lastTick.ran
    /\ vehicles = <<>>

-----------------------------------------------------------------------------
(* Spawning *)

\* the vehicles of the next state that are not in this one
SpawnedIds == Ids(vehicles') \ Ids(vehicles)

\* v has just left the home with index h for its office: it stands on the first
\* node of the path findPath gives from the home to the office on the present
\* roads, a path of two or more nodes
FreshFrom(v, h) ==
    LET o == findOfficeForHome(buildings, buildings[h])
        path == findPath(buildings[h].position, buildings[o].position, roads)
    IN  /\ IsHome(buildings[h])
        /\ o # 0
        /\ path.found
        /\ Len(path.path) >= 2
        /\ v.path = path.path
        /\ v.fromBuilding = buildings[h].id
        /\ v.toBuilding = buildings[o].id
        /\ v.status = "going-to-office"
        /\ v.targetIndex = 1
        /\ v.position = path.path[1]
        /\ v.waitTime = 0
        /\ v.intersectionArrivalTimes = EmptyTimes

C20_SpawnStep ==
    \A vid \in SpawnedIds :
        \E h \in 1..Len(buildings) : FreshFrom(VehicleOf(vehicles', vid), h)

\* C20: every vehicle that enters the active set comes from a home whose office
\* exists and to which findPath gives a path of two or more nodes on the present
\* roads; it has status going-to-office, targetIndex 1, its position on the
\* first node of that path, waitTime 0, no intersection arrival time, and the
\* home and the office as fromBuilding and toBuilding.
C20_SpawnedFromConnectedHome == [][C20_SpawnStep]_vars

\* a vehicle of home 1 stands freshly spawned at the start of a path of three
\* or more nodes
C20_Witness ==
    \E i \in 1..Len(vehicles) :
        /\ vehicles[i].fromBuilding = [color |-> 1, role |-> "home"]
        /\ vehicles[i].toBuilding = [color |-> 1, role |-> "office"]
        /\ vehicles[i].status = "going-to-office"
        /\ vehicles[i].targetIndex = 1
        /\ vehicles[i].position = vehicles[i].path[1]
        /\ Len(vehicles[i].path) >= 3
        /\ vehicles[i].waitTime = 0
        /\ vehicles[i].id = nextId

-----------------------------------------------------------------------------
(* Spawn attempts *)

\* no home has an office to which findPath gives two or more nodes on roadList
NoHomeConnected(blds, roadList) ==
    \A h \in 1..Len(blds) :
        IsHome(blds[h]) /\ findOfficeForHome(blds, blds[h]) # 0 =>
            LET path == findPath(blds[h].position,
                                 blds[findOfficeForHome(blds, blds[h])].position, roadList)
            IN  ~path.found \/ Len(path.path) < 2

\* a step that draws no road and in which the game loop moves no vehicle: a
\* call of spawnVehicle(), or nothing at all
C21_SpawnAttemptStep ==
    NoHomeConnected(buildings, roads) /\ roads' = roads /\ now' = now =>
        /\ SpawnedIds = {}
        /\ vehicles' = vehicles
        /\ score' = score
        /\ intersections' = intersections

\* C21: while no home has an office reachable by a path of two or more nodes, a
\* spawn attempt adds no vehicle and leaves the vehicles, the score, the roads
\* and the intersections as they were.
C21_NoConnectedHomeNoSpawn == [][C21_SpawnAttemptStep]_vars

\* a road is drawn, the interval may spawn, home 0 gets a path of one node and
\* no home a path of two
C21_Witness ==
    /\ roads # <<>>
    /\ NoHomeConnected(buildings, roads)
    /\ nextId < MaxSpawns
    /\ Len(vehicles) < MAX_VEHICLES
    /\ \E h \in Homes :
          LET path == findPath(buildings[h].position, buildings[OfficeOf(h)].position, roads)
          IN  path.found /\ Len(path.path) = 1

-----------------------------------------------------------------------------
(* The cap on active vehicles *)

\* C22: the number of active vehicles is at most MAX_VEHICLES in every state,
\* whether the vehicles come from the interval or from the add-vehicle button.
C22_AtMostMaxVehicles == Len(vehicles) <= MAX_VEHICLES

-----------------------------------------------------------------------------
(* Road requests *)

\* the three checks of a road request from start to end, one by one
CrossesRiver(start, end, control) ==
    IF control # NoPoint
    THEN doesCurveRoadCrossRiver(riverSegments, start, end, control)
    ELSE doesRoadCrossRiver(riverSegments, start, end)

OverlapsRoad(start, end, control) == doRoadsOverlap(start, end, roads, control)

OverlapsBuilding(start, end, control) ==
    doesRoadIntersectAnyBuilding(buildings, start, end, control)

\* the road list changes only by one road appended at its end, a road that
\* passes the three checks on the present roads, buildings and river, and the
\* vehicles and the score stay as they are in that step; while the road list
\* stays, so do the intersections
C23_RoadStep ==
    /\ roads' # roads =>
          /\ Len(roads') = Len(roads) + 1
          /\ SubSeq(roads', 1, Len(roads)) = roads
          /\ LET r == roads'[Len(roads')]
             IN  /\ ~CrossesRiver(r.start, r.end, r.controlPoint)
                 /\ ~OverlapsRoad(r.start, r.end, r.controlPoint)
                 /\ ~OverlapsBuilding(r.start, r.end, r.controlPoint)
          /\ vehicles' = vehicles
          /\ score' = score
    /\ roads' = roads => intersections' = intersections

\* C23: a road request that crosses the river, overlaps a road or runs through
\* a building changes neither the roads nor the intersections, the vehicles or
\* the score; a road is appended only when it passes all three checks.
C23_RejectedRoadChangesNothing == [][C23_RoadStep]_vars

\* a drag of the town is rejected by the river, another by an existing road,
\* a third by a building, while a vehicle is out
C23_Witness ==
    /\ vehicles # <<>>
    /\ Len(roads) < MaxRoads
    /\ \E d \in SimDrags : CrossesRiver(d.start, d.end, d.controlPoint)
    /\ \E d \in SimDrags :
          /\ OverlapsRoad(d.start, d.end, d.controlPoint)
          /\ ~OverlapsBuilding(d.start, d.end, d.controlPoint)
    /\ \E d \in SimDrags :
          /\ OverlapsBuilding(d.start, d.end, d.controlPoint)
          /\ ~OverlapsRoad(d.start, d.end, d.controlPoint)

\* what handleMouseUp does with a drag besides clearing the drawing state: it
\* appends a road and rebuilds the intersections, or it does nothing; it returns
\* no value and shows no message
MouseUpOutcome(d) ==
    IF RoadAccepted(roads, buildings, riverSegments, d.start, d.end, d.controlPoint)
    THEN "road appended"
    ELSE "nothing"

\* a drag that ends where it started
ZeroLength(d) == d.start = d.end

\* a drag longer than GRID_SIZE that one of the three checks rejects
OrdinaryRejected(d) ==
    /\ Dist2(d.start, d.end) > Sq(GRID_SIZE)
    /\ \/ CrossesRiver(d.start, d.end, d.controlPoint)
       \/ OverlapsRoad(d.start, d.end, d.controlPoint)
       \/ OverlapsBuilding(d.start, d.end, d.controlPoint)

\* C24: a road request whose start and end coincide is never taken: no road of
\* the road list has its start on its end (every road is longer than
\* GRID_SIZE), no edge of the graph of findPath joins a node to itself, and
\* handleMouseUp does with such a request what it does with every rejected
\* request, nothing.
C24_NoZeroLengthRoad ==
    /\ \A i \in 1..Len(roads) :
          /\ roads[i].start # roads[i].end
          /\ Dist2(roads[i].start, roads[i].end) > Sq(GRID_SIZE)
    /\ \A e \in GraphEdges(roads) : e[1] # e[2]
    /\ \A d \in NetDrags : ZeroLength(d) => MouseUpOutcome(d) = "nothing"

\* C24 as stated: the outcome of a request whose start and end coincide differs
\* from the outcome of a request rejected by the river, a road or a building.
C24_ZeroLengthDistinctOutcome ==
    \A d \in NetDrags, e \in NetDrags :
        ZeroLength(d) /\ OrdinaryRejected(e) => MouseUpOutcome(d) # MouseUpOutcome(e)

\* roads are drawn, one more may be, and a request that ends where it started
\* is on offer which neither the river nor a road nor a building would reject
C24_Witness ==
    /\ roads # <<>>
    /\ Len(roads) < MaxRoads
    /\ \E d \in NetDrags :
          /\ ZeroLength(d)
          /\ ~CrossesRiver(d.start, d.end, d.controlPoint)
          /\ ~OverlapsRoad(d.start, d.end, d.controlPoint)
          /\ ~OverlapsBuilding(d.start, d.end, d.controlPoint)
          /\ MouseUpOutcome(d) = "nothing"
    /\ \E e \in NetDrags : OrdinaryRejected(e)

-----------------------------------------------------------------------------
(* New game *)

\* the one drag of the new-game specification: the street between home 0 and
\* office 0, near enough to both
ResetDrags == {Drag(Pt(80, 100), Pt(120, 100), NoPoint)}

NextReset ==
    \/ \E d \in ResetDrags : AddRoad(d)
    \/ AutoSpawn
    \/ Tick
    \/ \E withRiver \in BOOLEAN : startNewGame(withRiver)

SpecReset == Init /\ [][NextReset]_vars

\* the vehicles counted for the score in a step: those on their way home at the
\* end of their path that are gone after the step
Credited == {vid \in Ids(vehicles) \ Ids(vehicles') :
                LET v == VehicleOf(vehicles, vid)
                IN  v.status = "going-home" /\ AtPathEnd(v)}

\* a step that starts a new game leaves no road, no vehicle, no intersection
\* and score 0; in a later step the score grows only by SCORE_PER_TRIP for
\* every vehicle counted, and each of them was spawned in the new game
C25_ResetStep ==
    /\ session' # session =>
          /\ roads' = <<>>
          /\ vehicles' = <<>>
          /\ intersections' = <<>>
          /\ score' = 0
    /\ session' = session /\ session.resets > 0 =>
          /\ score' = score + SCORE_PER_TRIP * Cardinality(Credited)
          /\ \A vid \in Credited : vid >= session.firstId
          /\ \A vid \in Ids(vehicles') : vid >= session.firstId

\* C25: a new game, started in any state, leaves no roads, no vehicles, no
\* intersections and score 0, and afterwards no trip of a vehicle of the game
\* before is added to the score.
C25_NewGameClearsAll == [][C25_ResetStep]_vars

\* a new game was started while vehicle #1 was out, and the score of the new
\* game comes from a vehicle spawned in it
C25_Witness ==
    /\ session.resets = 1
    /\ session.firstId = 2
    /\ score = SCORE_PER_TRIP
    /\ lastTick.ran
    /\ lastTick.scoreBefore = 0
    /\ lastTick.scoreAfter = SCORE_PER_TRIP

\* a new game has been started while a vehicle was on its way home
C25_WitnessOnWayHome ==
    /\ session.resets = 1
    /\ vehicles = <<>>
    /\ lastTick.ran
    /\ \E i \in 1..Len(lastTick.updatedVehicles) :
          lastTick.updatedVehicles[i].status = "going-home"
    /\ score = 0 /\ lastTick.scoreAfter = 0 /\ roads = <<>> /\ now = lastTick.currentTime

-----------------------------------------------------------------------------
(* The snapshot of a tick *)

\* vehiclesWithArrivalTimes of the last run of the game loop
SnapshotOf == WithArrivalTimes(lastTick.vehicles, lastTick.intersections, lastTick.currentTime)

\* a vehicle for which the last run came to the wait decision
Deciding(v) == EnRoute(v) /\ v.targetIndex < Len(v.path)

\* the snapshot with the positions and statuses the vehicles in the places
\* `done` received in the last run
PartlyUpdated(done) ==
    [j \in 1..Len(SnapshotOf) |->
        IF j \in done /\ SnapshotOf[j].id \in Ids(lastTick.updatedVehicles)
        THEN VehicleOf(lastTick.updatedVehicles, SnapshotOf[j].id)
        ELSE SnapshotOf[j]]

\* C26: in every run of the game loop a vehicle is told to wait exactly when
\* the wait decision taken on the snapshot (the vehicles as the run found them,
\* with the arrival times after bookkeeping) says so, whatever the other
\* vehicles receive in the same run.
C26_DecidedOnSnapshot ==
    lastTick.ran =>
        \A i \in 1..Len(SnapshotOf) :
            Deciding(SnapshotOf[i]) =>
                (Waited(SnapshotOf[i].id)
                    <=> ShouldWait(SnapshotOf[i], SnapshotOf, lastTick.intersections))

\* a vehicle was told to wait on the snapshot although, with the vehicles before
\* it in the list already moved, the decision would have been to go
C26_Witness ==
    /\ lastTick.ran
    /\ \E i \in 1..Len(SnapshotOf) :
          /\ Deciding(SnapshotOf[i])
          /\ ShouldWait(SnapshotOf[i], SnapshotOf, lastTick.intersections)
          /\ ~ShouldWait(SnapshotOf[i], PartlyUpdated(1..(i - 1)), lastTick.intersections)
          /\ Waited(SnapshotOf[i].id)

-----------------------------------------------------------------------------
(* Vehicles that wait for each other *)

\* the vehicle list the next run of the game loop returns
NextRun == Survivors(StepAll(vehicles, intersections, now + TICK_MS, buildings, roads))

\* every vehicle is en route, and the next run of the game loop returns each of
\* them as it is but for its waitTime: positions, statuses, targets and arrival
\* times stay.  The wait decision reads nothing else, so every later run does
\* the same.
AllWaitForever ==
    /\ vehicles # <<>>
    /\ \A i \in 1..Len(vehicles) : EnRoute(vehicles[i])
    /\ Len(NextRun) = Len(vehicles)
    /\ \A i \in 1..Len(vehicles) :
          NextRun[i] = [vehicles[i] EXCEPT !.waitTime = @ + 1]

\* a town with two pairs whose ways run against each other: home 0 and office 1
\* stand at the left end of the street, home 1 and office 0 at its right end
LiveBuildings ==
    <<Building(0, "home", Pt(40, 60)), Building(0, "office", Pt(160, 60)),
      Building(1, "home", Pt(160, 140)), Building(1, "office", Pt(40, 140))>>

\* the street drawn in three pieces that meet at (80,100) and (120,100)
LiveDrags ==
    {Drag(Pt(40, 100), Pt(80, 100), NoPoint),
     Drag(Pt(80, 100), Pt(120, 100), NoPoint),
     Drag(Pt(120, 100), Pt(160, 100), NoPoint)}

InitLive ==
    /\ roads = <<>>
    /\ vehicles = <<>>
    /\ intersections = <<>>
    /\ score = 0
    /\ riverSegments = River
    /\ buildings = LiveBuildings
    /\ now = 0
    /\ nextId = 0
    /\ query = NoQuery
    /\ lastTick = NoTick
    /\ build = NoBuild
    /\ session = FirstSession

NextLive ==
    \/ \E d \in LiveDrags : AddRoad(d)
    \/ AutoSpawn
    \/ ManualSpawn
    \/ Tick

\* setInterval runs the game loop again and again
SpecLive == InitLive /\ [][NextLive]_vars /\ WF_vars(Tick)

\* the last run of the game loop found every vehicle en route and returned each
\* of them as it was but for its waitTime, and nothing has happened since
AllWaitedInLastRun ==
    /\ lastTick.ran
    /\ lastTick.vehicles # <<>>
    /\ \A i \in 1..Len(lastTick.vehicles) : EnRoute(lastTick.vehicles[i])
    /\ Len(lastTick.updatedVehicles) = Len(lastTick.vehicles)
    /\ \A i \in 1..Len(lastTick.vehicles) :
          lastTick.updatedVehicles[i] = [lastTick.vehicles[i] EXCEPT !.waitTime = @ + 1]
    /\ vehicles = lastTick.updatedVehicles
    /\ intersections = lastTick.intersections

\* C27: the vehicles never come to wait for each other without end: no
\* reachable state has all its vehicles en route and held by the wait decision
\* of every run of the game loop from then on.
C27_NoVehiclesWaitForever == ~AllWaitForever

\* a run of the game loop in which all vehicles waited is followed by another
C27_WaitingNeverEnds == AllWaitedInLastRun => AllWaitForever

\* two runs in a row in which all vehicles waited
C27_WaitedTwice == AllWaitedInLastRun /\ AllWaitForever /\ Len(vehicles) = 2

-----------------------------------------------------------------------------
(* Vehicles inside an intersection *)

\* vehicles i and j, en route with the same status, both less than 15 px from
\* the intersection at p
TogetherInside(i, j, p) ==
    /\ i # j
    /\ EnRoute(vehicles[i])
    /\ vehicles[i].status = vehicles[j].status
    /\ Within(vehicles[i], p, INNER_RADIUS)
    /\ Within(vehicles[j], p, INNER_RADIUS)

\* C28: no two vehicles with the same status are less than 15 px from the same
\* intersection at the same time.
C28_OneVehicleInside ==
    \A i, j \in 1..Len(vehicles) : \A k \in 1..Len(intersections) :
        ~TogetherInside(i, j, intersections[k].point)

\* two streets that start at (80,100), the node nearest to home 0: one to the
\* node nearest to office 0 and one downwards
JunctionDrags ==
    {Drag(Pt(80, 100), Pt(120, 100), NoPoint),
     Drag(Pt(80, 100), Pt(80, 140), NoPoint)}

NextJunction ==
    \/ \E d \in JunctionDrags : AddRoad(d)
    \/ AutoSpawn
    \/ ManualSpawn
    \/ Tick

SpecJunction == Init /\ [][NextJunction]_vars

\* a vehicle is spawned on an intersection while another vehicle of its status,
\* spawned before the last run of the game loop, is still less than 15 px from it
C28_SpawnedOntoOccupied ==
    /\ Len(vehicles) = 2
    /\ lastTick.ran
    /\ Len(lastTick.vehicles) = 1
    /\ lastTick.intersections = intersections
    /\ \E k \in 1..Len(intersections) :
          /\ TogetherInside(1, 2, intersections[k].point)
          /\ vehicles[2].position = intersections[k].point
          /\ vehicles[2].targetIndex = 1
          /\ vehicles[1].position # vehicles[2].position

-----------------------------------------------------------------------------
(* Arrival times *)

\* the vehicles that the last run of the game loop found en route and returned
\* on the same leg (en route still, or just arrived at the office)
BookedIds ==
    {vid \in Ids(lastTick.vehicles) \cap Ids(lastTick.updatedVehicles) :
        /\ EnRoute(VehicleOf(lastTick.vehicles, vid))
        /\ VehicleOf(lastTick.updatedVehicles, vid).status
              \in {VehicleOf(lastTick.vehicles, vid).status, "at-office"}}

\* the arrival times of vehicle vid before and after the last run
TimesBefore(vid) == VehicleOf(lastTick.vehicles, vid).intersectionArrivalTimes

TimesAfter(vid) == VehicleOf(lastTick.updatedVehicles, vid).intersectionArrivalTimes

\* the last run found vehicle vid less than 30 px from the intersection with key k
FoundInZone(vid, k) ==
    DistLess(VehicleOf(lastTick.vehicles, vid).position, PointOfKey(k), ZONE_RADIUS)

\* C29: after a run of the game loop a vehicle that the run found en route has
\* an arrival time for an intersection of that run exactly when the run found it
\* less than 30 px from the intersection point; that time is the one it had
\* before the run if it had one, and the time of this run otherwise.
C29_ArrivalTimeIffInZone ==
    lastTick.ran =>
        \A vid \in BookedIds : \A k \in IntersectionKeys(lastTick.intersections) :
            /\ k \in DOMAIN TimesAfter(vid) <=> FoundInZone(vid, k)
            /\ FoundInZone(vid, k) =>
                  TimesAfter(vid)[k] = IF k \in DOMAIN TimesBefore(vid)
                                       THEN TimesBefore(vid)[k]
                                       ELSE lastTick.currentTime

\* a vehicle keeps a time of an earlier run for one intersection and, in the same
\* run, gets the time of this run for another
C29_Witness ==
    /\ lastTick.ran
    /\ \E vid \in BookedIds : \E k, m \in IntersectionKeys(lastTick.intersections) :
          /\ FoundInZone(vid, k)
          /\ k \in DOMAIN TimesBefore(vid)
          /\ TimesAfter(vid)[k] < lastTick.currentTime - TICK_MS
          /\ FoundInZone(vid, m)
          /\ m \notin DOMAIN TimesBefore(vid)

\* a vehicle that has left the zone of an intersection has lost its time
C29_WitnessLeft ==
    /\ lastTick.ran
    /\ \E vid \in BookedIds : \E k \in IntersectionKeys(lastTick.intersections) :
          /\ ~FoundInZone(vid, k)
          /\ k \in DOMAIN TimesBefore(vid)
          /\ k \notin DOMAIN TimesAfter(vid)

-----------------------------------------------------------------------------
(* Movement *)

\* the vehicles that the last run of the game loop found en route, short of the
\* end of their path, and did not hold
MovedIds ==
    {vid \in Ids(lastTick.vehicles) :
        /\ EnRoute(VehicleOf(lastTick.vehicles, vid))
        /\ VehicleOf(lastTick.vehicles, vid).targetIndex
              < Len(VehicleOf(lastTick.vehicles, vid).path)
        /\ ~Waited(vid)}

\* the step from p to q has the length s and the direction of t, up to the
\* rounding of the two coordinates to whole pixels
StepToward(p, q, t, s) ==
    LET mx == q.x - p.x
        my == q.y - p.y
        dx == t.x - p.x
        dy == t.y - p.y
    IN  /\ Sq(s - 1) <= Sq(mx) + Sq(my)
        /\ Sq(mx) + Sq(my) <= Sq(s + 1)
        /\ mx * dx + my * dy > 0
        /\ Sq(mx * dy - my * dx) <= Sq(dx) + Sq(dy)

\* C30: a vehicle that the game loop found en route with targetIndex below the
\* length of its path and did not hold is put on its lane-offset target, with
\* targetIndex one higher, if the target was less than its speed away; otherwise
\* it keeps targetIndex and drives its speed toward the target.  In every state
\* 1 <= targetIndex <= path length for every en-route vehicle, and no run of the
\* game loop lowers targetIndex within a leg.
C30_SnapOrDrive ==
    /\ \A i \in 1..Len(vehicles) :
          EnRoute(vehicles[i]) =>
              /\ 1 <= vehicles[i].targetIndex
              /\ vehicles[i].targetIndex <= Len(vehicles[i].path)
    /\ lastTick.ran =>
          /\ \A vid \in MovedIds :
                /\ vid \in Ids(lastTick.updatedVehicles)
                /\ LET old == VehicleOf(lastTick.vehicles, vid)
                       new == VehicleOf(lastTick.updatedVehicles, vid)
                       target == AdjustedTarget(old)
                   IN  /\ new.status = old.status
                       /\ new.path = old.path
                       /\ IF Dist2(old.position, target) < Sq(old.speed)
                          THEN /\ new.position = target
                               /\ new.targetIndex = old.targetIndex + 1
                          ELSE /\ new.targetIndex = old.targetIndex
                               /\ StepToward(old.position, new.position, target, old.speed)
          /\ \A vid \in Ids(lastTick.vehicles) \cap Ids(lastTick.updatedVehicles) :
                VehicleOf(lastTick.updatedVehicles, vid).status
                      = VehicleOf(lastTick.vehicles, vid).status
                   => VehicleOf(lastTick.updatedVehicles, vid).targetIndex
                         >= VehicleOf(lastTick.vehicles, vid).targetIndex

\* in one run of the game loop one vehicle is put on its target, which was nearer
\* than its speed but not reached, and another drives on
C30_Witness ==
    /\ lastTick.ran
    /\ \E vid, wid \in MovedIds :
          LET old == VehicleOf(lastTick.vehicles, vid)
              new == VehicleOf(lastTick.updatedVehicles, vid)
              other == VehicleOf(lastTick.vehicles, wid)
          IN  /\ Dist2(old.position, AdjustedTarget(old)) < Sq(old.speed)
              /\ old.position # AdjustedTarget(old)
              /\ new.targetIndex = Len(new.path)
              /\ Dist2(other.position, AdjustedTarget(other)) >= Sq(other.speed)
              /\ VehicleOf(lastTick.updatedVehicles, wid).position # other.position

-----------------------------------------------------------------------------
(* waitTime *)

\* the places of the snapshot whose vehicles the last run held, and those it
\* let go
HeldPlaces ==
    {i \in 1..Len(SnapshotOf) :
        Deciding(SnapshotOf[i])
        /\ ShouldWait(SnapshotOf[i], SnapshotOf, lastTick.intersections)}

FreePlaces ==
    {i \in 1..Len(SnapshotOf) :
        Deciding(SnapshotOf[i])
        /\ ~ShouldWait(SnapshotOf[i], SnapshotOf, lastTick.intersections)}

\* C31: a run of the game loop that holds a vehicle returns it with waitTime
\* raised and with the arrival times of the bookkeeping, every other field as
\* it was; a run that lets it go returns it with a waitTime that is not higher
\* and not below zero; waitTime >= 0 in every state.
C31_WaitChangesWaitTimeOnly ==
    /\ \A i \in 1..Len(vehicles) : vehicles[i].waitTime >= 0
    /\ lastTick.ran =>
          /\ \A i \in HeldPlaces :
                /\ lastTick.vehicles[i].id \in Ids(lastTick.updatedVehicles)
                /\ LET old == lastTick.vehicles[i]
                       new == VehicleOf(lastTick.updatedVehicles, old.id)
                   IN  /\ new.waitTime > old.waitTime
                       /\ new.intersectionArrivalTimes
                             = SnapshotOf[i].intersectionArrivalTimes
                       /\ new = [old EXCEPT !.waitTime = new.waitTime,
                                            !.intersectionArrivalTimes =
                                                new.intersectionArrivalTimes]
          /\ \A i \in FreePlaces :
                /\ lastTick.vehicles[i].id \in Ids(lastTick.updatedVehicles)
                /\ LET old == lastTick.vehicles[i]
                       new == VehicleOf(lastTick.updatedVehicles, old.id)
                   IN  /\ new.waitTime <= old.waitTime
                       /\ new.waitTime >= 0
                       /\ (old.waitTime > 0 => new.waitTime < old.waitTime)

\* a held vehicle whose arrival times the same run changed, and a vehicle let
\* go after a wait
C31_Witness ==
    /\ lastTick.ran
    /\ \E i \in HeldPlaces :
          lastTick.vehicles[i].intersectionArrivalTimes
              # SnapshotOf[i].intersectionArrivalTimes
    /\ \E i \in FreePlaces : lastTick.vehicles[i].waitTime > 0

-----------------------------------------------------------------------------
(* A town in which the way back can be lost: a street from the node nearest  *)
(* to home 0 to the node nearest to office 0, a street that starts at office *)
(* 0 and leads away, and the piece that joins the two.                       *)

ReturnDrags ==
    {Drag(Pt(80, 100), Pt(120, 100), NoPoint),
     Drag(Pt(160, 100), Pt(160, 140), NoPoint),
     Drag(Pt(120, 100), Pt(160, 100), NoPoint)}

NextReturn ==
    \/ \E d \in ReturnDrags : AddRoad(d)
    \/ AutoSpawn
    \/ Tick

SpecReturn == Init /\ [][NextReturn]_vars

\* the vehicles the last run of the game loop found at the office with the
\* dwell elapsed and without a way back of two or more nodes on the roads of
\* that run
StrandedIds ==
    {vid \in Ids(lastTick.vehicles) :
        LET old == VehicleOf(lastTick.vehicles, vid)
            back == createReturnPath(old, buildings, lastTick.roads)
        IN  /\ old.status = "at-office"
            /\ lastTick.currentTime - old.officeArrivalTime >= OFFICE_WAIT_TIME
            /\ ~(back.found /\ Len(back.path) >= 2)}

\* C32: a vehicle found at the office with the dwell elapsed and without a
\* return path of two or more nodes is returned by the run as it was, and the
\* run credits nothing for it.
C32_StrandedStaysAtOffice ==
    lastTick.ran =>
        /\ \A vid \in StrandedIds :
              /\ vid \in Ids(lastTick.updatedVehicles)
              /\ VehicleOf(lastTick.updatedVehicles, vid) = VehicleOf(lastTick.vehicles, vid)
        /\ (StrandedIds = Ids(lastTick.vehicles) => lastTick.scoreAfter = lastTick.scoreBefore)

\* a vehicle is stranded at the office, several runs after its dwell elapsed, by
\* a road drawn after it was spawned
C32_Witness ==
    /\ lastTick.ran
    /\ \E vid \in StrandedIds :
          LET old == VehicleOf(lastTick.vehicles, vid)
          IN  /\ lastTick.currentTime - old.officeArrivalTime
                    >= OFFICE_WAIT_TIME + 3 * TICK_MS
              /\ Len(lastTick.roads) = 2

\* a vehicle that was stranded is sent home by the first run that finds a way
\* back
C32_WitnessSentHome ==
    /\ lastTick.ran
    /\ \E vid \in Ids(lastTick.vehicles) \cap Ids(lastTick.updatedVehicles) :
          LET old == VehicleOf(lastTick.vehicles, vid)
              new == VehicleOf(lastTick.updatedVehicles, vid)
          IN  /\ old.status = "at-office"
              /\ new.status = "going-home"
              /\ lastTick.currentTime - old.officeArrivalTime
                    >= OFFICE_WAIT_TIME + 3 * TICK_MS

-----------------------------------------------------------------------------
(* Roads drawn while vehicles are out *)

\* a vehicle of both lists whose path the step replaces
PathReplaced(old, new) == old.id = new.id /\ old.path # new.path

\* C33: a step that changes the road list leaves the vehicle list as it is, and
\* a step replaces the path of a vehicle only by turning it from at-office to
\* going-home.
C33_RoadStep ==
    /\ roads' # roads => vehicles' = vehicles
    /\ \A i \in 1..Len(vehicles) : \A j \in 1..Len(vehicles') :
          PathReplaced(vehicles[i], vehicles'[j]) =>
              /\ vehicles[i].status = "at-office"
              /\ vehicles'[j].status = "going-home"

C33_RoadLeavesVehiclesAlone == [][C33_RoadStep]_vars

\* a road has been drawn since the last run of the game loop while a vehicle is
\* under way past its first target, on a path that findPath no longer gives
C33_Witness ==
    /\ lastTick.ran
    /\ Len(roads) > Len(lastTick.roads)
    /\ vehicles = lastTick.updatedVehicles
    /\ \E i \in 1..Len(vehicles) :
          /\ vehicles[i].status = "going-to-office"
          /\ vehicles[i].targetIndex >= 2
          /\ LET h == FindBuilding(buildings, vehicles[i].fromBuilding)
                 o == FindBuilding(buildings, vehicles[i].toBuilding)
                 fresh == findPath(buildings[h].position, buildings[o].position, roads)
             IN  fresh.found /\ fresh.path # vehicles[i].path

-----------------------------------------------------------------------------
(* Roads and intersections of one version *)

\* the town of the junction at (80,100) with the new-game buttons
NextVersions ==
    \/ \E d \in JunctionDrags : AddRoad(d)
    \/ AutoSpawn
    \/ Tick
    \/ \E withRiver \in BOOLEAN : startNewGame(withRiver)

SpecVersions == Init /\ [][NextVersions]_vars

\* C34: in every state the intersections are what findIntersections gives for
\* the road list of that state, and every run of the game loop has read
\* intersections and roads of which the same holds.
C34_IntersectionsOfCurrentRoads ==
    /\ intersections = findIntersections(roads)
    /\ lastTick.ran => lastTick.intersections = findIntersections(lastTick.roads)

\* a new game has been started from a town with an intersection, after a run of
\* the game loop that read that intersection
C34_Witness ==
    /\ session.resets = 1
    /\ lastTick.ran
    /\ lastTick.intersections # <<>>
    /\ lastTick.vehicles # <<>>
    /\ roads # lastTick.roads
    /\ intersections = <<>>

\* a run of the game loop has read the intersection that the second road made
C34_WitnessRebuilt ==
    /\ lastTick.ran
    /\ Len(lastTick.roads) = 2
    /\ Len(lastTick.intersections) = 1
    /\ lastTick.vehicles # <<>>

-----------------------------------------------------------------------------
(* Paths as walks *)

\* the sequence of points p is a walk without repetition over the nodes and
\* edges given as keys
IsWalk(p, nodes, edges) ==
    /\ Len(p) >= 1
    /\ \A i \in 1..Len(p) : KeyOf(p[i]) \in nodes
    /\ \A i \in 1..(Len(p) - 1) :
          \/ <<KeyOf(p[i]), KeyOf(p[i + 1])>> \in edges
          \/ <<KeyOf(p[i + 1]), KeyOf(p[i])>> \in edges
    /\ \A i, j \in 1..Len(p) : i # j => p[i] # p[j]

\* C35: a path returned by findPath is a walk without repetition in the graph of
\* the roads of the query, from a node nearest to the start to a node nearest to
\* the end.
C35_PathIsWalk ==
    (query.asked /\ query.result.found) =>
        /\ IsWalk(query.result.path, QueryNodes, QueryEdges)
        /\ KeyOf(query.result.path[1]) \in Nearest(query.start)
        /\ KeyOf(query.result.path[Len(query.result.path)]) \in Nearest(query.end)

\* a path of three or more nodes through a crossing, for a start and an end that
\* are no nodes of the graph
C35_Witness ==
    /\ query.asked
    /\ query.result.found
    /\ Len(query.result.path) >= 3
    /\ KeyOf(query.start) \notin QueryNodes
    /\ KeyOf(query.end) \notin QueryNodes
    /\ \E i \in 1..Len(query.result.path) :
          \A r \in 1..Len(query.roads) :
              /\ query.result.path[i] # query.roads[r].start
              /\ query.result.path[i] # query.roads[r].end

\* the path of every vehicle runs without repetition over nodes of the graph of
\* the roads of the state (roads are only added, and a node stays a node)
C35_VehiclePathsOnNodes ==
    \A i \in 1..Len(vehicles) :
        /\ Len(vehicles[i].path) >= 2
        /\ \A j \in 1..Len(vehicles[i].path) :
              KeyOf(vehicles[i].path[j]) \in GraphNodes(roads)
        /\ \A j, k \in 1..Len(vehicles[i].path) :
              j # k => vehicles[i].path[j] # vehicles[i].path[k]

-----------------------------------------------------------------------------
(* The order of the intersections *)

\* the intersections of the last run in the order f
Reordered(f) == [i \in 1..Len(lastTick.intersections) |-> lastTick.intersections[f[i]]]

\* the results of the last run, had it read the intersections in the order f
ResultsIn(f) ==
    StepAll(lastTick.vehicles, Reordered(f), lastTick.currentTime, buildings, lastTick.roads)

\* C36: the vehicles a run of the game loop returns and the score it adds are
\* those it returns and adds for the same intersections in any other order.
C36_AnyOrderOfIntersections ==
    lastTick.ran =>
        \A f \in Permutations(1..Len(lastTick.intersections)) :
            /\ Survivors(ResultsIn(f)) = lastTick.updatedVehicles
            /\ CommitScore(lastTick.scoreBefore, ScoreIncrease(ResultsIn(f)))
                  = lastTick.scoreAfter

\* a run with two intersections in which a vehicle in the approach band of both
\* is held because of one of them only, while another vehicle moves
C36_Witness ==
    /\ lastTick.ran
    /\ Len(lastTick.intersections) = 2
    /\ \E i \in HeldPlaces : \E a, b \in 1..2 :
          /\ InApproachBand(SnapshotOf[i], lastTick.intersections[a].point)
          /\ InApproachBand(SnapshotOf[i], lastTick.intersections[b].point)
          /\ QueueSaysWait(SnapshotOf[i], SnapshotOf, KeyOf(lastTick.intersections[a].point))
          /\ ~QueueSaysWait(SnapshotOf[i], SnapshotOf, KeyOf(lastTick.intersections[b].point))
          /\ ~SameDirectionInIntersection(SnapshotOf[i], SnapshotOf,
                                          lastTick.intersections[b].point)
    /\ FreePlaces # {}

-----------------------------------------------------------------------------
(* One vehicle at a time: the street between the nodes nearest to home 0 and *)
(* office 0 is drawn, and a side street that no path uses; the interval      *)
(* spawns a vehicle whenever none is out, and the game loop runs again and   *)
(* again.                                                                    *)

NextSolo ==
    \/ \E d \in JunctionDrags : AddRoad(d)
    \/ AutoSpawn
    \/ Tick

\* a run of the game loop over a vehicle list that is not empty, seen on the
\* clock: it is the only step that advances it
Running == vehicles # <<>> /\ now < MaxTicks * TICK_MS /\ now' = now + TICK_MS

\* setInterval runs the game loop again and again
SpecSolo == Init /\ [][NextSolo]_vars /\ WF_now(Running)

\* vehicle vid is in the vehicle list
Out(vid) == vid \in Ids(vehicles)

\* vehicle vid is in the list with the given status
OutAs(vid, status) == Out(vid) /\ VehicleOf(vehicles, vid).status = status

\* the runs of the game loop that a leg of the trip takes at most on the street
\* of this town, 40 px long: four moves and the run that finds the vehicle at
\* the end of its path (the dwell takes two runs)
LegRuns == 5

\* the clock leaves time for a leg of the trip before the last run observed
TimeForLeg == now + LegRuns * TICK_MS <= MaxTicks * TICK_MS

\* C37: a vehicle that is alone on an unchanging street is never held; it
\* comes to the office, then starts its way back, and is then removed, the
\* score being one trip higher than before it was spawned.  Each leg is
\* followed from any state that leaves it LegRuns runs of the observed clock.
C37_LoneVehicleCompletesTrip ==
    /\ [](\A i \in 1..Len(vehicles) : vehicles[i].waitTime = 0)
    /\ \A vid \in 1..MaxSpawns :
          /\ (OutAs(vid, "going-to-office") /\ TimeForLeg) ~> OutAs(vid, "at-office")
          /\ (OutAs(vid, "at-office") /\ TimeForLeg) ~> OutAs(vid, "going-home")
          /\ (OutAs(vid, "going-home") /\ TimeForLeg)
                ~> (~Out(vid) /\ score = vid * SCORE_PER_TRIP)
          /\ [](Out(vid) => score = (vid - 1) * SCORE_PER_TRIP)

\* the second vehicle has come home
C37_Witness ==
    /\ nextId = 2
    /\ vehicles = <<>>
    /\ score = 2 * SCORE_PER_TRIP
    /\ lastTick.roads = roads

-----------------------------------------------------------------------------
(* A vehicle dwelling at its office on an intersection.  The street from     *)
(* (80,100) ends at (120,100), the node nearest to office 0, and a side      *)
(* street leaves from that end: the vehicle arrives on the junction while    *)
(* the next one, spawned by the button, drives up behind it.                 *)

OfficeDrags ==
    {Drag(Pt(80, 100), Pt(120, 100), NoPoint),
     Drag(Pt(120, 100), Pt(120, 140), NoPoint)}

NextOffice ==
    \/ \E d \in OfficeDrags : AddRoad(d)
    \/ AutoSpawn
    \/ ManualSpawn
    \/ Tick

SpecOffice == Init /\ [][NextOffice]_vars

\* the vehicles the last run found at the office
DwellingIds == {vid \in Ids(lastTick.vehicles) :
                   VehicleOf(lastTick.vehicles, vid).status = "at-office"}

\* the sub-list of the vehicles whose id is not in ids
Without(vs, ids) == SelectSeq(vs, LAMBDA w : w.id \notin ids)

\* the ids in the queue of an intersection, as the last run built it
QueuedIds(key) ==
    LET queue == QueueOf(WithArrivalTimes(lastTick.vehicles, lastTick.intersections,
                                          lastTick.currentTime), key)
    IN  {queue[i].id : i \in 1..Len(queue)}

\* C38: a vehicle found at the office by a run of the game loop is in no
\* intersection's queue; the other vehicles come out of the run as they would
\* had the vehicle not been in the list; and while it stays at the office it
\* comes out with the arrival times it went in with.
C38_AtOfficeOutOfTraffic ==
    lastTick.ran =>
        /\ \A i \in 1..Len(lastTick.intersections) :
              QueuedIds(KeyOf(lastTick.intersections[i].point)) \cap DwellingIds = {}
        /\ Without(lastTick.updatedVehicles, DwellingIds)
              = Survivors(StepAll(Without(lastTick.vehicles, DwellingIds),
                                  lastTick.intersections, lastTick.currentTime,
                                  buildings, lastTick.roads))
        /\ \A vid \in DwellingIds \cap Ids(lastTick.updatedVehicles) :
              LET before == VehicleOf(lastTick.vehicles, vid)
                  after == VehicleOf(lastTick.updatedVehicles, vid)
              IN  after.status = "at-office"
                      => after.intersectionArrivalTimes = before.intersectionArrivalTimes

\* a run found a vehicle at the office inside an intersection, holding the time
\* of its arrival there, and another vehicle in the approach band of that
\* intersection, which it let drive on
C38_Witness ==
    /\ lastTick.ran
    /\ \E vid \in DwellingIds, i \in 1..Len(lastTick.intersections) :
          LET p == lastTick.intersections[i].point
              d == VehicleOf(lastTick.vehicles, vid)
          IN  /\ DistLess(d.position, p, INNER_RADIUS)
              /\ KeyOf(p) \in DOMAIN d.intersectionArrivalTimes
              /\ VehicleOf(lastTick.updatedVehicles, vid).status = "at-office"
              /\ \E oid \in Ids(lastTick.vehicles) \cap Ids(lastTick.updatedVehicles) :
                    LET o == VehicleOf(lastTick.vehicles, oid)
                    IN  /\ EnRoute(o)
                        /\ InApproachBand(o, p)
                        /\ VehicleOf(lastTick.updatedVehicles, oid).position # o.position

\* a run found a vehicle at the office inside an intersection drawn after its
\* arrival, of which it holds no time
C38_WitnessNoTime ==
    /\ lastTick.ran
    /\ \E vid \in DwellingIds, i \in 1..Len(lastTick.intersections) :
          LET p == lastTick.intersections[i].point
              d == VehicleOf(lastTick.vehicles, vid)
          IN  /\ DistLess(d.position, p, INNER_RADIUS)
              /\ KeyOf(p) \notin DOMAIN d.intersectionArrivalTimes

-----------------------------------------------------------------------------
(* The way there and the way back *)

\* findPath(b, a) on the roads of the query findPath(a, b)
WayBack == findPath(query.end, query.start, query.roads)

\* C39: on the same roads findPath(b, a) returns a path exactly when
\* findPath(a, b) does, and the two paths have the same number of nodes.
C39_WayBackAsLong ==
    query.asked =>
        /\ WayBack.found = query.result.found
        /\ Len(WayBack.path) = Len(query.result.path)

\* a path of three or more nodes between two different points that are not the
\* ends of the path
C39_Witness ==
    /\ query.asked
    /\ query.result.found
    /\ WayBack.found
    /\ Len(query.result.path) >= 3
    /\ query.start # query.end
    /\ query.start # query.result.path[1]
    /\ query.end # WayBack.path[1]

\* no path in either direction although the end is within reach of its node and
\* connected to the node nearest to the start: the start is too far
C39_WitnessNeither ==
    /\ query.asked
    /\ ~query.result.found
    /\ ~WayBack.found
    /\ findPath(query.end, query.end, query.roads).found
    /\ findPath(query.end, Pt(80, 100), query.roads).found
    /\ ClosestNode(AllNodes(query.roads), query.start) = Pt(80, 100)

\* the vehicles the last run found at the office with the dwell elapsed, on
\* roads on which findPath gives, from their home to their office, the path
\* they were spawned with
ServedIds ==
    {vid \in Ids(lastTick.vehicles) :
        LET old == VehicleOf(lastTick.vehicles, vid)
            h == FindBuilding(buildings, old.fromBuilding)
            o == FindBuilding(buildings, old.toBuilding)
        IN  /\ old.status = "at-office"
            /\ lastTick.currentTime - old.officeArrivalTime >= OFFICE_WAIT_TIME
            /\ h # 0 /\ o # 0
            /\ findPath(buildings[h].position, buildings[o].position, lastTick.roads)
                  = [found |-> TRUE, path |-> old.path]}

\* on such roads the run sends the vehicle home, on a path as long as the way there
C39_SentHomeOnSameRoads ==
    lastTick.ran =>
        \A vid \in ServedIds :
            /\ vid \in Ids(lastTick.updatedVehicles)
            /\ VehicleOf(lastTick.updatedVehicles, vid).status = "going-home"
            /\ Len(VehicleOf(lastTick.updatedVehicles, vid).path)
                  = Len(VehicleOf(lastTick.vehicles, vid).path)

C39_WitnessSentHome == lastTick.ran /\ ServedIds # {}

-----------------------------------------------------------------------------
(* The order of the roads *)

\* the road list in the order f
RoadsIn(f) == [i \in 1..Len(roads) |-> roads[f[i]]]

\* the crossings of the pairs of straight roads, before the test against the
\* recorded points
CrossingPoints(roadList) ==
    LET found == CrossingsOf(roadList, Pairs(Len(roadList)))
    IN  {found[i] : i \in 1..Len(found)}

\* C40: the builder returns the same set of points for the roads in any order.
C40_AnyOrderOfRoads ==
    \A f \in Permutations(1..Len(roads)) :
        PointsOf(findIntersections(RoadsIn(f))) = PointsOf(intersections)

\* what does hold in any order: the junctions are the same, and the crossings
\* found are the same before the test against the recorded points, so that a
\* point returned in one order is returned in every other or has a point
\* returned there less than 5 px from it in x and in y
C40_SameBeforeDedup ==
    \A f \in Permutations(1..Len(roads)) :
        LET other == findIntersections(RoadsIn(f))
        IN  /\ PointsOf(Junctions(RoadsIn(f))) = PointsOf(Junctions(roads))
            /\ CrossingPoints(RoadsIn(f)) = CrossingPoints(roads)
            /\ \A p \in PointsOf(intersections) :
                  p \in PointsOf(other) \/ AlreadyRecorded(other, p)

\* three roads whose crossings lie less than 5 px from one another: the builder
\* returns another point for them in another order
C40_WitnessNearCrossings ==
    /\ Len(roads) = 3
    /\ \E f \in Permutations(1..3) :
          PointsOf(findIntersections(RoadsIn(f))) # PointsOf(intersections)

=============================================================================
